---- MODULE Spec2Model ----
(***************************************************************************)
(* agent-eval-kit: the run executor (runner.ts), the grader pipeline       *)
(* (pipeline.ts), case scoring (scoring.ts), gates (gate.ts) and the       *)
(* judge-only re-grade mode, as state machines.                            *)
(*                                                                         *)
(* Numbers.  Scores, thresholds and rates are exact rationals              *)
(* [num, den] in lowest terms; the inputs are dyadic (multiples of 1/2 or  *)
(* 1/4) and the weights small integers, for which IEEE-754 comparison      *)
(* against a dyadic threshold agrees with the exact comparison.            *)
(* Strings are sequences of string tokens; a template literal is the       *)
(* concatenation of its parts, numbers rendered with ToString.             *)
(***************************************************************************)
EXTENDS Integers, Sequences, FiniteSets, TLC

\* ---------------------------------------------------------------- bounds
MaxCases == 2        \* cases of the resolved suite
MaxGraders == 2      \* graders in a grader list
MaxElapsed == 2      \* clock ticks observed while one case is executed

\* `undefined` of an optional numeric field
Undefined == -1

\* ------------------------------------------------------------- rationals
RECURSIVE GCD(_, _)
GCD(a, b) == IF b = 0 THEN a ELSE GCD(b, a % b)

Q(n, d) == LET g == GCD(n, d) IN [num |-> n \div g, den |-> d \div g]

RatAdd(a, b) == Q(a.num * b.den + b.num * a.den, a.den * b.den)
RatMulInt(a, k) == Q(a.num * k, a.den)
RatDivInt(a, k) == Q(a.num, a.den * k)
RatGeq(a, b) == a.num * b.den >= b.num * a.den
RatLeq(a, b) == RatGeq(b, a)
RatMin(a, b) == IF RatLeq(a, b) THEN a ELSE b

Zero == Q(0, 1)
One == Q(1, 1)
Half == Q(1, 2)
\* `undefined` of an optional field that holds a fraction
NoRat == [num |-> Undefined, den |-> 1]

\* Number.prototype.toFixed(3): the value rounded to thousandths, as digits
ToFixed3(r) ==
  LET t == (2 * 1000 * r.num + r.den) \div (2 * r.den)
      frac == t % 1000
  IN  ToString(t \div 1000) \o "." \o
      (IF frac < 10 THEN "00" ELSE IF frac < 100 THEN "0" ELSE "") \o ToString(frac)

\* `${n}` of a number that is a fraction of small integers
NumToString(r) == IF r.den = 1 THEN ToString(r.num)
                  ELSE ToString(r.num) \o "/" \o ToString(r.den)

\* ----------------------------------------------------------- sequences
Range(s) == {s[i] : i \in 1..Len(s)}

\* Array.prototype.join(", ")
RECURSIVE Join(_)
Join(s) == IF Len(s) = 0 THEN <<>>
           ELSE IF Len(s) = 1 THEN <<s[1]>>
           ELSE <<s[1], ", ">> \o Join(Tail(s))

\* String.prototype.includes over token sequences
Contains(text, part) ==
  \E i \in 0..(Len(text) - Len(part)) :
     \A j \in 1..Len(part) : text[i + j] = part[j]

SeqsUpTo(S, n) == UNION {[1..k -> S] : k \in 0..n}

\* -------------------------------------------------------------- scoring
\* GradeResult and GraderConfig (types.ts).  `required` undefined is falsy
\* and is modelled as FALSE.
MakeGrade(pass, score, name) ==
  [pass |-> pass, score |-> score,
   reason |-> IF pass THEN "ok" ELSE "failed", graderName |-> name]

MakeConfig(grader, weight, required, threshold) ==
  [grader |-> grader, weight |-> weight, required |-> required,
   threshold |-> threshold]

\* indices the two loops of computeCaseResult do not skip
\* (`if (!grade || !config) continue`)
ScoredIndices(grades, configs) ==
  {i \in 1..Len(grades) : i <= Len(configs)}

\* config.required && !grade.pass
IsFailedRequired(grade, config) == config.required /\ ~grade.pass

\* first loop: names of the required graders that failed, in order
RECURSIVE FailedRequiredFrom(_, _, _)
FailedRequiredFrom(grades, configs, i) ==
  IF i > Len(grades) THEN <<>>
  ELSE (IF i \in ScoredIndices(grades, configs)
           /\ IsFailedRequired(grades[i], configs[i])
        THEN <<grades[i].graderName>> ELSE <<>>)
       \o FailedRequiredFrom(grades, configs, i + 1)

\* config.weight ?? 1.0
WeightOf(config) == IF config.weight = Undefined THEN 1 ELSE config.weight

\* mutant: the negation is lost
PushIfFailed_Inverted(failedGraders, grade) ==
  IF grade.pass THEN Append(failedGraders, grade.graderName) ELSE failedGraders

\* if (!grade.pass) failedGraders.push(grade.graderName)
PushIfFailed(failedGraders, grade) ==
  IF ~grade.pass THEN Append(failedGraders, grade.graderName) ELSE failedGraders

\* second loop: weightedSum, totalWeight and failedGraders accumulated
RECURSIVE WeightedLoop(_, _, _, _)
WeightedLoop(grades, configs, i, acc) ==
  IF i > Len(grades) THEN acc
  ELSE IF i \notin ScoredIndices(grades, configs)
  THEN WeightedLoop(grades, configs, i + 1, acc)
  ELSE LET weight == WeightOf(configs[i])
       IN WeightedLoop(grades, configs, i + 1,
            [weightedSum |-> RatAdd(acc.weightedSum,
                                    RatMulInt(grades[i].score, weight)),
             totalWeight |-> acc.totalWeight + weight,
             failedGraders |-> PushIfFailed(acc.failedGraders, grades[i])])

\* grades.find((g) => failedRequired.includes(g.graderName) && !g.pass)?.reason
FailedGradeReason(grades, failedRequired) ==
  LET hits == {i \in 1..Len(grades) :
                 grades[i].graderName \in Range(failedRequired) /\ ~grades[i].pass}
  IN  IF hits = {} THEN "unknown"
      ELSE grades[CHOOSE i \in hits : \A j \in hits : i <= j].reason

\* mutant: the required path keeps the score of the failed grade
RequiredFailureResult_KeepsScore(grades, failedRequired) ==
  [pass |-> FALSE, score |-> grades[1].score, failedGraders |-> failedRequired,
   reason |-> <<"Required grader '", failedRequired[1], "' failed: ",
                FailedGradeReason(grades, failedRequired)>>]

\* the result returned when failedRequired.length > 0
RequiredFailureResult(grades, failedRequired) ==
  [pass |-> FALSE, score |-> Zero, failedGraders |-> failedRequired,
   reason |-> <<"Required grader '", failedRequired[1], "' failed: ",
                FailedGradeReason(grades, failedRequired)>>]

\* mutant: a total weight of 0 scores 0
WeightedScore_ZeroDefault(weightedSum, totalWeight) ==
  IF totalWeight > 0 THEN RatDivInt(weightedSum, totalWeight) ELSE Zero

\* totalWeight > 0 ? weightedSum / totalWeight : 1
WeightedScore(weightedSum, totalWeight) ==
  IF totalWeight > 0 THEN RatDivInt(weightedSum, totalWeight) ELSE One

\* mutant: a tie fails
MeetsThreshold_Strict(score, caseThreshold) ==
  RatGeq(score, caseThreshold) /\ score # caseThreshold

\* score >= caseThreshold
MeetsThreshold(score, caseThreshold) == RatGeq(score, caseThreshold)

computeCaseResult(grades, configs, caseThreshold) ==
  IF Len(grades) = 0
  THEN [pass |-> TRUE, score |-> One, failedGraders |-> <<>>,
        reason |-> <<"No graders configured">>]
  ELSE
    LET failedRequired == FailedRequiredFrom(grades, configs, 1) IN
    IF Len(failedRequired) > 0
    THEN RequiredFailureResult(grades, failedRequired)
    ELSE
      LET acc == WeightedLoop(grades, configs, 1,
                   [weightedSum |-> Zero, totalWeight |-> 0, failedGraders |-> <<>>])
          score == WeightedScore(acc.weightedSum, acc.totalWeight)
          pass == MeetsThreshold(score, caseThreshold)
      IN [pass |-> pass, score |-> score, failedGraders |-> acc.failedGraders,
          reason |-> IF pass
                     THEN <<"Score ", ToFixed3(score), " >= threshold ",
                            NumToString(caseThreshold)>>
                     ELSE <<"Score ", ToFixed3(score), " < threshold ",
                            NumToString(caseThreshold), ". Failed: ">>
                          \o Join(acc.failedGraders)]

\* Math.min of two thresholds
PickThreshold(a, b) == RatMin(a, b)

\* thresholds.length > 0 ? ... : 0.5
DefaultThreshold == Half

\* Math.min(...thresholds) over the thresholds that are set
RECURSIVE MinThreshold(_, _, _)
MinThreshold(configs, i, best) ==
  IF i > Len(configs) THEN best
  ELSE IF configs[i].threshold = NoRat THEN MinThreshold(configs, i + 1, best)
  ELSE MinThreshold(configs, i + 1,
         IF best = NoRat THEN configs[i].threshold
         ELSE PickThreshold(best, configs[i].threshold))

inferThreshold(configs) ==
  LET m == MinThreshold(configs, 1, NoRat)
  IN  IF m = NoRat THEN DefaultThreshold ELSE m

\* ------------------------------------------------------- summary, gates
\* [...values].sort((a, b) => a - b)
RECURSIVE Insert(_, _)
Insert(x, s) == IF Len(s) = 0 THEN <<x>>
                ELSE IF x < s[1] THEN <<x>> \o s
                ELSE <<s[1]>> \o Insert(x, Tail(s))

RECURSIVE SortAsc(_)
SortAsc(s) == IF Len(s) = 0 THEN <<>> ELSE Insert(s[1], SortAsc(Tail(s)))

\* mutant: the 95th percentile taken to be the largest value
computeP95_Max(values) ==
  IF Len(values) = 0 THEN 0 ELSE SortAsc(values)[Len(values)]

\* Math.ceil(0.95 * n) - 1, then sorted[Math.max(0, idx)] ?? 0.  The double
\* product 0.95 * n has the ceiling of the exact 95 n / 100 for every
\* n up to 100000, so the index is computed in integers.
computeP95(values) ==
  IF Len(values) = 0 THEN 0
  ELSE LET sorted == SortAsc(values)
           idx == ((95 * Len(sorted) + 99) \div 100) - 1
           at == IF idx < 0 THEN 0 ELSE idx
       IN  IF at + 1 <= Len(sorted) THEN sorted[at + 1] ELSE 0

\* the TODO stub: no category is ever aggregated
computeByCategory(trials) == <<>>

\* mutant: every trial that did not pass is counted as failed
CountStatus_NonPassFails(trials, status) ==
  Cardinality({i \in 1..Len(trials) :
                 IF status = "fail" THEN trials[i].status # "pass"
                 ELSE trials[i].status = status})

CountStatus(trials, status) ==
  Cardinality({i \in 1..Len(trials) : trials[i].status = status})

\* trials.reduce((sum, t) => sum + (t.output.cost ?? 0), 0)
RECURSIVE SumCost(_)
SumCost(trials) ==
  IF Len(trials) = 0 THEN 0
  ELSE (IF trials[1].output.cost = Undefined THEN 0 ELSE trials[1].output.cost)
       + SumCost(Tail(trials))

computePartialSummary(trials, totalDurationMs) ==
  LET passed == CountStatus(trials, "pass")
      failed == CountStatus(trials, "fail")
      errors == CountStatus(trials, "error")
      totalCases == Len(trials)
      byCategory == computeByCategory(trials)
  IN [totalCases |-> totalCases, passed |-> passed, failed |-> failed,
      errors |-> errors,
      passRate |-> IF totalCases > 0 THEN Q(passed, totalCases) ELSE Zero,
      totalCost |-> SumCost(trials),
      totalDurationMs |-> totalDurationMs,
      p95LatencyMs |-> computeP95([i \in 1..Len(trials) |-> trials[i].output.latencyMs]),
      byCategory |-> [present |-> DOMAIN byCategory # {}, value |-> byCategory]]

\* GateConfig: each of the three thresholds is optional; `gates` itself is
\* optional (present = FALSE)
\* `keys` is the order in which the object holds its keys
NoGates == [present |-> FALSE, passRate |-> NoRat, maxCost |-> Undefined,
            p95LatencyMs |-> Undefined, keys |-> <<>>]
MakeGates(passRate, maxCost, p95LatencyMs) ==
  [present |-> TRUE, passRate |-> passRate, maxCost |-> maxCost,
   p95LatencyMs |-> p95LatencyMs,
   keys |-> <<"passRate", "maxCost", "p95LatencyMs">>]

\* mutant: a value equal to its limit fails the gate
AtMost_Strict(actual, limit) == actual < limit

\* summary.totalCost <= gates.maxCost, summary.p95LatencyMs <= gates.p95LatencyMs
AtMost(actual, limit) == actual <= limit

evaluateGates(summary, gates) ==
  IF ~gates.present THEN [pass |-> TRUE, results |-> <<>>]
  ELSE
    LET r1 == IF gates.passRate # NoRat
              THEN <<[gate |-> "passRate",
                      pass |-> RatGeq(summary.passRate, gates.passRate),
                      actual |-> summary.passRate, threshold |-> gates.passRate]>>
              ELSE <<>>
        r2 == IF gates.maxCost # Undefined
              THEN <<[gate |-> "maxCost",
                      pass |-> AtMost(summary.totalCost, gates.maxCost),
                      actual |-> Q(summary.totalCost, 1),
                      threshold |-> Q(gates.maxCost, 1)]>>
              ELSE <<>>
        r3 == IF gates.p95LatencyMs # Undefined
              THEN <<[gate |-> "p95LatencyMs",
                      pass |-> AtMost(summary.p95LatencyMs, gates.p95LatencyMs),
                      actual |-> Q(summary.p95LatencyMs, 1),
                      threshold |-> Q(gates.p95LatencyMs, 1)]>>
              ELSE <<>>
        results == r1 \o r2 \o r3
    IN [pass |-> \A i \in 1..Len(results) : results[i].pass, results |-> results]

\* the value of a gate key as a number; `undefined` is NoRat
GateValue(gates, key) ==
  CASE key = "passRate" -> gates.passRate
    [] key = "maxCost" ->
         IF gates.maxCost = Undefined THEN NoRat ELSE Q(gates.maxCost, 1)
    [] key = "p95LatencyMs" ->
         IF gates.p95LatencyMs = Undefined THEN NoRat ELSE Q(gates.p95LatencyMs, 1)

\* JSON.stringify of the gates: the members in the object's key order, a key
\* whose value is undefined left out; nothing for gates that are undefined
RECURSIVE StringifyMembers(_, _)
StringifyMembers(gates, keys) ==
  IF Len(keys) = 0 THEN <<>>
  ELSE (IF GateValue(gates, keys[1]) = NoRat THEN <<>>
        ELSE <<<<keys[1], GateValue(gates, keys[1])>>>>)
       \o StringifyMembers(gates, Tail(keys))

StringifyGates(gates) ==
  IF ~gates.present THEN <<"undefined">>
  ELSE <<"{">> \o StringifyMembers(gates, gates.keys) \o <<"}">>

\* mutant: the whole cases are hashed, not only their ids
computeConfigHash_WholeCases(suite) ==
  [name |-> suite.name, caseCount |-> Len(suite.cases),
   caseIds |-> suite.cases, gates |-> StringifyGates(suite.gates)]

\* the JSON text that is hashed, member by member; SHA-256 is taken as
\* injective on it
computeConfigHash(suite) ==
  [name |-> suite.name, caseCount |-> Len(suite.cases),
   caseIds |-> [i \in 1..Len(suite.cases) |-> suite.cases[i].id],
   gates |-> StringifyGates(suite.gates)]

\* ------------------------------------------------------------- pipeline
\* an optional grader list (`readonly GraderConfig[] | undefined`)
NoGraders == [present |-> FALSE, list |-> <<>>]
SomeGraders(list) == [present |-> TRUE, list |-> list]

\* mutant: the case graders are put in front of the suite defaults
EffectiveConfigs_Merged(caseGraders, suiteGraders) ==
  caseGraders.list \o suiteGraders.list

\* caseGraders && caseGraders.length > 0 ? caseGraders : (suiteGraders ?? [])
EffectiveConfigs(caseGraders, suiteGraders) ==
  IF caseGraders.present /\ Len(caseGraders.list) > 0 THEN caseGraders.list
  ELSE IF suiteGraders.present THEN suiteGraders.list ELSE <<>>

\* what runGraderPipeline returns once every grader has resolved
PipelineResult(grades, configs) ==
  [grades |-> grades,
   caseResult |-> computeCaseResult(grades, configs, inferThreshold(configs))]

\* --------------------------------------------------------------- runner
\* mutant: the timeout message names the unit wrongly
TimeoutMessage_Seconds(timeoutMs) == <<"Timeout after ", ToString(timeoutMs), "s">>

\* new Error(`Timeout after ${timeoutMs}ms`).message
TimeoutMessage(timeoutMs) == <<"Timeout after ", ToString(timeoutMs), "ms">>

\* mutant: the synthesized output reports no latency
ErrorTrial_ZeroLatency(caseId, message, durationMs) ==
  [caseId |-> caseId, status |-> "error",
   output |-> [text |-> <<"Target error: ">> \o message,
               latencyMs |-> 0, cost |-> Undefined],
   grades |-> <<>>, score |-> Zero, durationMs |-> durationMs,
   trialIndex |-> Undefined]

\* the trial executeCase returns from its catch block
ErrorTrial(caseId, message, durationMs) ==
  [caseId |-> caseId, status |-> "error",
   output |-> [text |-> <<"Target error: ">> \o message,
               latencyMs |-> durationMs, cost |-> Undefined],
   grades |-> <<>>, score |-> Zero, durationMs |-> durationMs,
   trialIndex |-> Undefined]

\* mutant: the status is taken from the score against the default threshold
StatusOf_ByScore(caseResult) ==
  IF RatGeq(caseResult.score, Half) THEN "pass" ELSE "fail"

\* pipelineResult.caseResult.pass ? "pass" : "fail"
StatusOf(caseResult) == IF caseResult.pass THEN "pass" ELSE "fail"

\* the trial executeCase returns after the pipeline
GradedTrial(caseId, output, pipelineResult, durationMs) ==
  [caseId |-> caseId, status |-> StatusOf(pipelineResult.caseResult),
   output |-> output, grades |-> pipelineResult.grades,
   score |-> pipelineResult.caseResult.score, durationMs |-> durationMs,
   trialIndex |-> Undefined]

\* the Run artifact (id, timestamp and frameworkVersion carry no behaviour)
MakeRun(suite, options, trials, totalDurationMs) ==
  LET partialSummary == computePartialSummary(trials, totalDurationMs)
      gateResult == evaluateGates(partialSummary, suite.gates)
  IN [schemaVersion |-> "1.0.0", suiteId |-> suite.name, mode |-> options.mode,
      trials |-> trials,
      summary |-> ("gateResult" :> gateResult) @@ partialSummary,
      configHash |-> computeConfigHash(suite)]

\* ---------------------------------------------------------- input sets
CaseId(i) == "H0" \o ToString(i)
GraderName(i) == "g" \o ToString(i)

\* `category` of a case that carries none
NoCategory == "none"

\* the cases of a suite whose cases carry categories
CategorizedCases ==
  <<[id |-> CaseId(1), category |-> "happy_path"],
    [id |-> CaseId(2), category |-> "edge_case"]>>

CaseLists ==
  {[i \in 1..n |-> [id |-> CaseId(i), category |-> NoCategory]] : n \in 0..MaxCases}
    \cup {CategorizedCases}

\* scoring policies a suite's default graders carry
Policies == {<<Undefined, FALSE, NoRat>>, <<3, TRUE, One>>}

GraderLists ==
  {[i \in 1..Len(f) |-> MakeConfig(GraderName(i), f[i][1], f[i][2], f[i][3])] :
     f \in SeqsUpTo(Policies, MaxGraders)}

GateChoices == {NoGates, MakeGates(One, 0, 1)}

Suites ==
  {[name |-> "smoke", cases |-> cs, defaultGraders |-> g, gates |-> gt] :
     cs \in CaseLists,
     g \in {NoGraders} \cup {SomeGraders(l) : l \in GraderLists},
     gt \in GateChoices}

Timeouts == 1..(MaxElapsed - 1)

\* what a target may return, and the message of what it may throw
TargetOutputs ==
  {[text |-> <<"Response for: hello">>, latencyMs |-> 0, cost |-> Undefined],
   [text |-> <<"slow">>, latencyMs |-> 2, cost |-> 1]}
TargetErrors == {<<"API unavailable">>}

\* what one grader invocation may resolve to
GradeOutcomes == {<<TRUE, One>>, <<FALSE, Zero>>}

\* trials a stored Run may hold for a case: a pass, a fail and a timeout
StoredTrial(kind, caseId) ==
  IF kind = "pass"
  THEN [caseId |-> caseId, status |-> "pass",
        output |-> [text |-> <<"Hello world">>, latencyMs |-> 1, cost |-> 1],
        grades |-> <<MakeGrade(TRUE, One, "old")>>, score |-> One,
        durationMs |-> 1, trialIndex |-> 0]
  ELSE IF kind = "fail"
  THEN [caseId |-> caseId, status |-> "fail",
        output |-> [text |-> <<"slow">>, latencyMs |-> 2, cost |-> Undefined],
        grades |-> <<MakeGrade(FALSE, Zero, "old")>>, score |-> Zero,
        durationMs |-> 2, trialIndex |-> Undefined]
  ELSE ErrorTrial(caseId, TimeoutMessage(1), 1)

PreviousRuns ==
  {[schemaVersion |-> "1.0.0", suiteId |-> "smoke",
    trials |-> [i \in 1..Len(k) |-> StoredTrial(k[i], CaseId(i))]] :
     k \in SeqsUpTo({"pass", "fail", "error"}, MaxCases)}

NoOutput == [text |-> <<>>, latencyMs |-> 0, cost |-> Undefined]
NoRun == [schemaVersion |-> "none"]

\* ---------------------------------------------------------------- state
VARIABLES
  suite,        \* the ResolvedSuite given to runSuite
  options,      \* the RunOptions given to runSuite
  pc,           \* where runSuite is suspended
  now,          \* Date.now(), in ticks since runSuite started
  caseStart,    \* executeCase: caseStart
  idx,          \* position of the for-of loop over suite.cases (1-based)
  trials,       \* runSuite: trials
  output,       \* executeCase: output
  durationMs,   \* executeCase: durationMs of the successful path
  grades,       \* runGraderPipeline: grades
  target,       \* per case: state of the promise suite.target returned
  timer,        \* per case: state of withTimeout's timer
  order,        \* case ids the target has been invoked with, in call order
  graderCalls,  \* <<caseId, graderName>> of every grader invocation, in order
  run,          \* the Run that runSuite resolved with
  scoring,      \* input and result of a direct call of the scoring functions
  previousRun,  \* runJudgeOnly: the stored Run that is re-graded
  regraded,     \* runJudgeOnly: regraded
  pipeline,     \* a direct call of runGraderPipeline, grader by grader
  compose,      \* a direct call of a grader built by all, any or not
  judge,        \* a direct call of parseJudgeResponse or of an llmRubric grader
  gate,         \* a direct call of evaluateGates
  direct,       \* a direct call of one of the other pure functions
  watcher       \* the file watcher: timer, pending changes, listeners, log

vars == <<suite, options, pc, now, caseStart, idx, trials, output, durationMs,
          grades, target, timer, order, graderCalls, run, scoring, previousRun,
          regraded, pipeline, compose, judge, gate, direct, watcher>>

NoScoring == [call |-> "none"]
NoPipeline == [call |-> "none"]
NoCompose == [call |-> "none"]
NoJudge == [call |-> "none"]
NoGate == [call |-> "none"]
NoDirect == [call |-> "none"]
NoWatcher == [state |-> "none"]

\* runSuite(suite, options) has been called
InitLive ==
  /\ suite \in Suites
  /\ options \in {[mode |-> "live", timeoutMs |-> t] : t \in Timeouts}
  /\ pc = "loop"
  /\ previousRun = NoRun
  /\ regraded = <<>>
  /\ now = 0
  /\ caseStart = 0
  /\ idx = 1
  /\ trials = <<>>
  /\ output = NoOutput
  /\ durationMs = 0
  /\ grades = <<>>
  /\ target = [i \in 1..Len(suite.cases) |-> "idle"]
  /\ timer = [i \in 1..Len(suite.cases) |-> "unset"]
  /\ order = <<>>
  /\ graderCalls = <<>>
  /\ run = NoRun
  /\ scoring = NoScoring
  /\ pipeline = NoPipeline
  /\ compose = NoCompose
  /\ judge = NoJudge
  /\ gate = NoGate
  /\ direct = NoDirect
  /\ watcher = NoWatcher

\* runJudgeOnly({previousRun, suiteConfig, runOptions}) has been called
InitJudgeOnly ==
  /\ suite \in Suites
  /\ options \in {[mode |-> "judge-only", timeoutMs |-> t] : t \in Timeouts}
  /\ previousRun \in PreviousRuns
  /\ pc = "joLoop"
  /\ regraded = <<>>
  /\ now = 0
  /\ caseStart = 0
  /\ idx = 1
  /\ trials = <<>>
  /\ output = NoOutput
  /\ durationMs = 0
  /\ grades = <<>>
  /\ target = [i \in 1..Len(suite.cases) |-> "idle"]
  /\ timer = [i \in 1..Len(suite.cases) |-> "unset"]
  /\ order = <<>>
  /\ graderCalls = <<>>
  /\ run = NoRun
  /\ scoring = NoScoring
  /\ pipeline = NoPipeline
  /\ compose = NoCompose
  /\ judge = NoJudge
  /\ gate = NoGate
  /\ direct = NoDirect
  /\ watcher = NoWatcher

Init == InitLive \/ InitJudgeOnly

\* configs of the pipeline executeCase runs (case-level graders: undefined)
Configs == EffectiveConfigs(NoGraders, suite.defaultGraders)

\* runSuite: next iteration of the loop; executeCase up to its first await:
\* caseStart is read, withTimeout arms the timer and invokes the target
StartCase ==
  /\ pc = "loop"
  /\ idx <= Len(suite.cases)
  /\ caseStart' = now
  /\ timer' = [timer EXCEPT ![idx] = "armed"]
  /\ target' = [target EXCEPT ![idx] = "running"]
  /\ order' = Append(order, suite.cases[idx].id)
  /\ pc' = "awaitTarget"
  /\ UNCHANGED <<suite, options, now, idx, trials, output, durationMs, grades,
                 graderCalls, run, scoring, previousRun, regraded, pipeline, compose,
                 judge, gate, direct, watcher>>

\* the clock advances while executeCase is suspended on the target or a grader
Tick ==
  /\ pc \in {"awaitTarget", "awaitGrader"}
  /\ now - caseStart < MaxElapsed
  /\ now' = now + 1
  /\ UNCHANGED <<suite, options, pc, caseStart, idx, trials, output, durationMs,
                 grades, target, timer, order, graderCalls, run, scoring, previousRun, regraded, pipeline, compose,
                 judge, gate, direct, watcher>>

\* mutant: trials.unshift(trial) in place of trials.push(trial)
PushTrial_Unshift(trial) ==
  /\ trials' = <<trial>> \o trials
  /\ idx' = idx + 1
  /\ pc' = "loop"

\* runSuite: trials.push(trial) and on to the next case
PushTrial(trial) ==
  /\ trials' = Append(trials, trial)
  /\ idx' = idx + 1
  /\ pc' = "loop"

\* the pipeline has all its grades: score, build the trial, push it
CompleteCase(out, allGrades, duration) ==
  PushTrial(GradedTrial(suite.cases[idx].id, out,
                        PipelineResult(allGrades, Configs), duration))

\* the target's promise fulfils before the timer fires: the timer is cleared,
\* durationMs is taken and the pipeline invokes its first grader
TargetReturns(out) ==
  /\ pc = "awaitTarget"
  /\ target[idx] = "running"
  /\ timer[idx] = "armed"
  /\ target' = [target EXCEPT ![idx] = "returned"]
  /\ timer' = [timer EXCEPT ![idx] = "cleared"]
  /\ output' = out
  /\ durationMs' = now - caseStart
  /\ grades' = <<>>
  /\ IF Len(Configs) = 0
     THEN /\ CompleteCase(out, <<>>, now - caseStart)
          /\ UNCHANGED graderCalls
     ELSE /\ graderCalls' = Append(graderCalls, <<suite.cases[idx].id, Configs[1].grader>>)
          /\ pc' = "awaitGrader"
          /\ UNCHANGED <<idx, trials>>
  /\ UNCHANGED <<suite, options, now, caseStart, order, run, scoring, previousRun, regraded, pipeline, compose,
                 judge, gate, direct, watcher>>

\* the target's promise rejects before the timer fires: catch block
TargetThrows(message) ==
  /\ pc = "awaitTarget"
  /\ target[idx] = "running"
  /\ timer[idx] = "armed"
  /\ target' = [target EXCEPT ![idx] = "threw"]
  /\ timer' = [timer EXCEPT ![idx] = "cleared"]
  /\ PushTrial(ErrorTrial(suite.cases[idx].id, message, now - caseStart))
  /\ UNCHANGED <<suite, options, now, caseStart, output, durationMs, grades,
                 order, graderCalls, run, scoring, previousRun, regraded, pipeline, compose,
                 judge, gate, direct, watcher>>

\* mutant: the timer fires and aborts, but nothing listens for the abort: the
\* race is not rejected
TimerFires_NoReject ==
  /\ pc = "awaitTarget"
  /\ timer[idx] = "armed"
  /\ now - caseStart >= options.timeoutMs
  /\ timer' = [timer EXCEPT ![idx] = "fired"]
  /\ UNCHANGED <<suite, options, pc, now, caseStart, idx, trials, output, durationMs,
                 grades, target, order, graderCalls, run, scoring, previousRun,
                 regraded, pipeline, compose, judge, gate, direct, watcher>>

\* the timer fires first: controller.abort() rejects the race with the
\* timeout error; nothing is handed to the target, which keeps running
TimerFires ==
  /\ pc = "awaitTarget"
  /\ timer[idx] = "armed"
  /\ now - caseStart >= options.timeoutMs
  /\ timer' = [timer EXCEPT ![idx] = "fired"]
  /\ PushTrial(ErrorTrial(suite.cases[idx].id, TimeoutMessage(options.timeoutMs),
                          now - caseStart))
  /\ UNCHANGED <<suite, options, now, caseStart, output, durationMs, grades,
                 target, order, graderCalls, run, scoring, previousRun, regraded, pipeline, compose,
                 judge, gate, direct, watcher>>

\* a target invocation that lost the race settles: Promise.race has already
\* settled, the late result is dropped
LateSettle(i, how) ==
  /\ target[i] = "running"
  /\ timer[i] = "fired"
  /\ target' = [target EXCEPT ![i] = how]
  /\ UNCHANGED <<suite, options, pc, now, caseStart, idx, trials, output,
                 durationMs, grades, timer, order, graderCalls, run, scoring, previousRun, regraded, pipeline, compose,
                 judge, gate, direct, watcher>>

\* the grader awaited by the pipeline resolves: its grade is pushed, then the
\* next grader is invoked or, after the last one, the case is completed
GraderResolves(pass, score) ==
  /\ pc = "awaitGrader"
  /\ LET config == Configs[Len(grades) + 1]
         allGrades == Append(grades, MakeGrade(pass, score, config.grader))
     IN /\ grades' = allGrades
        /\ IF Len(allGrades) < Len(Configs)
           THEN /\ graderCalls' = Append(graderCalls,
                       <<suite.cases[idx].id, Configs[Len(allGrades) + 1].grader>>)
                /\ UNCHANGED <<pc, idx, trials>>
           ELSE /\ CompleteCase(output, allGrades, durationMs)
                /\ UNCHANGED graderCalls
  /\ UNCHANGED <<suite, options, now, caseStart, output, durationMs, target,
                 timer, order, run, scoring, previousRun, regraded, pipeline, compose,
                 judge, gate, direct, watcher>>

\* the grader awaited by the pipeline rejects: nothing catches it, runSuite
\* rejects and no Run is produced
GraderThrows ==
  /\ pc = "awaitGrader"
  /\ pc' = "rejected"
  /\ UNCHANGED <<suite, options, now, caseStart, idx, trials, output, durationMs,
                 grades, target, timer, order, graderCalls, run, scoring, previousRun, regraded, pipeline, compose,
                 judge, gate, direct, watcher>>

\* runSuite after the loop: summary, gates, the Run
FinishRun ==
  /\ pc = "loop"
  /\ idx > Len(suite.cases)
  /\ run' = MakeRun(suite, options, trials, now)
  /\ pc' = "done"
  /\ UNCHANGED <<suite, options, now, caseStart, idx, trials, output, durationMs,
                 grades, target, timer, order, graderCalls, scoring, previousRun, regraded, pipeline, compose,
                 judge, gate, direct, watcher>>

\* ----------------------------------------------------------- judge-only
\* mutant: the re-graded trial is built like a fresh one, duration and trial
\* index not carried over
RegradedTrial_Fresh(trial, pipelineResult) ==
  [caseId |-> trial.caseId, status |-> StatusOf(pipelineResult.caseResult),
   output |-> trial.output, grades |-> pipelineResult.grades,
   score |-> pipelineResult.caseResult.score, durationMs |-> 0,
   trialIndex |-> Undefined]

\* the trial runJudgeOnly pushes for a stored trial
RegradedTrial(trial, pipelineResult) ==
  [caseId |-> trial.caseId, status |-> StatusOf(pipelineResult.caseResult),
   output |-> trial.output, grades |-> pipelineResult.grades,
   score |-> pipelineResult.caseResult.score, durationMs |-> trial.durationMs,
   trialIndex |-> trial.trialIndex]

\* mutant: a stored error trial is carried over as it is, not re-graded
PushRegraded_KeepError(allGrades) ==
  /\ regraded' = Append(regraded,
       IF previousRun.trials[idx].status = "error"
       THEN previousRun.trials[idx]
       ELSE RegradedTrial(previousRun.trials[idx], PipelineResult(allGrades, Configs)))
  /\ idx' = idx + 1
  /\ pc' = "joLoop"

\* regraded.push({...}) and on to the next stored trial
PushRegraded(allGrades) ==
  /\ regraded' = Append(regraded,
       RegradedTrial(previousRun.trials[idx], PipelineResult(allGrades, Configs)))
  /\ idx' = idx + 1
  /\ pc' = "joLoop"

\* next iteration of the loop over previousRun.trials: the pipeline is run
\* on the stored output and invokes its first grader
RegradeStart ==
  /\ pc = "joLoop"
  /\ idx <= Len(previousRun.trials)
  /\ grades' = <<>>
  /\ IF Len(Configs) = 0
     THEN /\ PushRegraded(<<>>)
          /\ UNCHANGED graderCalls
     ELSE /\ graderCalls' = Append(graderCalls,
                 <<previousRun.trials[idx].caseId, Configs[1].grader>>)
          /\ pc' = "joAwaitGrader"
          /\ UNCHANGED <<idx, regraded>>
  /\ UNCHANGED <<suite, options, now, caseStart, trials, output, durationMs,
                 target, timer, order, run, scoring, previousRun, pipeline, compose,
                 judge, gate, direct, watcher>>

RegradeGraderResolves(pass, score) ==
  /\ pc = "joAwaitGrader"
  /\ LET config == Configs[Len(grades) + 1]
         allGrades == Append(grades, MakeGrade(pass, score, config.grader))
     IN /\ grades' = allGrades
        /\ IF Len(allGrades) < Len(Configs)
           THEN /\ graderCalls' = Append(graderCalls,
                       <<previousRun.trials[idx].caseId,
                         Configs[Len(allGrades) + 1].grader>>)
                /\ UNCHANGED <<pc, idx, regraded>>
           ELSE /\ PushRegraded(allGrades)
                /\ UNCHANGED graderCalls
  /\ UNCHANGED <<suite, options, now, caseStart, trials, output, durationMs,
                 target, timer, order, run, scoring, previousRun, pipeline, compose,
                 judge, gate, direct, watcher>>

\* a grader rejects: runJudgeOnly rejects
RegradeGraderThrows ==
  /\ pc = "joAwaitGrader"
  /\ pc' = "rejected"
  /\ UNCHANGED <<suite, options, now, caseStart, idx, trials, output, durationMs,
                 grades, target, timer, order, graderCalls, run, scoring,
                 previousRun, regraded, pipeline, compose,
                 judge, gate, direct, watcher>>

\* return regraded
RegradeFinish ==
  /\ pc = "joLoop"
  /\ idx > Len(previousRun.trials)
  /\ pc' = "joDone"
  /\ UNCHANGED <<suite, options, now, caseStart, idx, trials, output, durationMs,
                 grades, target, timer, order, graderCalls, run, scoring,
                 previousRun, regraded, pipeline, compose,
                 judge, gate, direct, watcher>>

Next ==
  \/ StartCase
  \/ Tick
  \/ \E out \in TargetOutputs : TargetReturns(out)
  \/ \E message \in TargetErrors : TargetThrows(message)
  \/ TimerFires
  \/ \E i \in 1..Len(suite.cases), how \in {"returned", "threw"} : LateSettle(i, how)
  \/ \E g \in GradeOutcomes : GraderResolves(g[1], g[2])
  \/ GraderThrows
  \/ FinishRun
  \/ RegradeStart
  \/ \E g \in GradeOutcomes : RegradeGraderResolves(g[1], g[2])
  \/ RegradeGraderThrows
  \/ RegradeFinish

Spec == Init /\ [][Next]_vars

\* -------------------------------------------------- runSuite, termination
\* suites without gates and categories whose graders, if any, all carry the
\* default policy
PlainSuites ==
  {s \in Suites :
     /\ ~s.gates.present
     /\ s.cases # CategorizedCases
     /\ s.defaultGraders # SomeGraders(<<>>)
     /\ \A i \in 1..Len(s.defaultGraders.list) :
          s.defaultGraders.list[i] = MakeConfig(GraderName(i), Undefined, FALSE, NoRat)}

InitTermination ==
  /\ InitLive
  /\ suite \in PlainSuites

\* runSuite with graders that resolve: no grader invocation rejects
NextTermination ==
  \/ StartCase
  \/ Tick
  \/ \E out \in {o \in TargetOutputs : o.cost = Undefined} : TargetReturns(out)
  \/ \E message \in TargetErrors : TargetThrows(message)
  \/ TimerFires
  \/ \E i \in 1..Len(suite.cases), how \in {"returned", "threw"} : LateSettle(i, how)
  \/ \E g \in GradeOutcomes : GraderResolves(g[1], g[2])
  \/ FinishRun

\* the promise of the awaited grader resolves and its grade is pushed: the
\* steps of GraderResolves, seen on the grades alone
GraderSettles ==
  /\ pc = "awaitGrader"
  /\ \E g \in GradeOutcomes :
       grades' = Append(grades, MakeGrade(g[1], g[2], Configs[Len(grades) + 1].grader))

\* the continuations of runSuite run once they are ready, time passes, a
\* timer whose delay has elapsed fires, and every grader invocation
\* resolves; nothing is assumed of the target
FairTermination ==
  /\ WF_vars(StartCase)
  /\ WF_vars(FinishRun)
  /\ WF_vars(Tick)
  /\ WF_vars(TimerFires)
  /\ WF_grades(GraderSettles)

SpecTermination == InitTermination /\ [][NextTermination]_vars /\ FairTermination

\* ------------------------------------------- direct calls of the scoring
\* grades a grader list may have produced, one per config
ScoreValues == {Zero, Q(1, 4), Half, One}
WeightValues == {Undefined, 0, 3}
ThresholdValues == {Q(1, 4), Half, One}
ConfigThresholds == {NoRat, Q(1, 4), One}

GradeLists(n) ==
  {[i \in 1..n |-> MakeGrade(f[i][1], f[i][2], GraderName(i))] :
     f \in [1..n -> BOOLEAN \X ScoreValues]}

\* configs as computeCaseResult reads them: weight and required
ScoringConfigLists(n) ==
  {[i \in 1..n |-> MakeConfig(GraderName(i), f[i][1], f[i][2], NoRat)] :
     f \in [1..n -> WeightValues \X BOOLEAN]}

\* configs as the pipeline reads them: weight, required and threshold
PipelineConfigLists(n) ==
  {[i \in 1..n |-> MakeConfig(GraderName(i), f[i][1], f[i][2], f[i][3])] :
     f \in [1..n -> {Undefined, 3} \X BOOLEAN \X ConfigThresholds]}

InitScoring ==
  /\ suite = [name |-> "smoke", cases |-> <<>>, defaultGraders |-> NoGraders,
              gates |-> NoGates]
  /\ options = [mode |-> "live", timeoutMs |-> 1]
  /\ pc = "scoring"
  /\ now = 0
  /\ caseStart = 0
  /\ idx = 1
  /\ trials = <<>>
  /\ output = NoOutput
  /\ durationMs = 0
  /\ grades = <<>>
  /\ target = <<>>
  /\ timer = <<>>
  /\ order = <<>>
  /\ graderCalls = <<>>
  /\ run = NoRun
  /\ previousRun = NoRun
  /\ regraded = <<>>
  /\ scoring = NoScoring
  /\ pipeline = NoPipeline
  /\ compose = NoCompose
  /\ judge = NoJudge
  /\ gate = NoGate
  /\ direct = NoDirect
  /\ watcher = NoWatcher

\* computeCaseResult(grades, configs, caseThreshold) is called
CallComputeCaseResult ==
  /\ pc = "scoring"
  /\ scoring = NoScoring
  /\ \E n \in 0..MaxGraders :
       \E gs \in GradeLists(n), cs \in ScoringConfigLists(n), t \in ThresholdValues :
          scoring' = [call |-> "computeCaseResult", grades |-> gs, configs |-> cs,
                      caseThreshold |-> t,
                      result |-> computeCaseResult(gs, cs, t)]
  /\ UNCHANGED <<suite, options, pc, now, caseStart, idx, trials, output,
                 durationMs, grades, target, timer, order, graderCalls, run,
                 previousRun, regraded, pipeline, compose,
                 judge, gate, direct, watcher>>

\* the tail of runGraderPipeline: inferThreshold, then computeCaseResult
CallPipelineScoring ==
  /\ pc = "scoring"
  /\ scoring = NoScoring
  /\ \E n \in 0..MaxGraders :
       \E gs \in GradeLists(n), cs \in PipelineConfigLists(n) :
          scoring' = [call |-> "pipeline", grades |-> gs, configs |-> cs,
                      caseThreshold |-> inferThreshold(cs),
                      result |-> PipelineResult(gs, cs).caseResult]
  /\ UNCHANGED <<suite, options, pc, now, caseStart, idx, trials, output,
                 durationMs, grades, target, timer, order, graderCalls, run,
                 previousRun, regraded, pipeline, compose,
                 judge, gate, direct, watcher>>

NextScoring == CallComputeCaseResult \/ CallPipelineScoring

SpecScoring == InitScoring /\ [][NextScoring]_vars

\* ------------------------------------------ direct calls of the pipeline
runnerVars == <<suite, options, pc, now, caseStart, idx, trials, output,
                durationMs, grades, target, timer, order, graderCalls, run,
                previousRun, regraded>>

\* neither runSuite nor runJudgeOnly is running: `of` is called on its own
DirectCall(of) ==
  /\ suite = [name |-> "smoke", cases |-> <<>>, defaultGraders |-> NoGraders,
              gates |-> NoGates]
  /\ options = [mode |-> "live", timeoutMs |-> 1]
  /\ pc = of
  /\ now = 0
  /\ caseStart = 0
  /\ idx = 1
  /\ trials = <<>>
  /\ output = NoOutput
  /\ durationMs = 0
  /\ grades = <<>>
  /\ target = <<>>
  /\ timer = <<>>
  /\ order = <<>>
  /\ graderCalls = <<>>
  /\ run = NoRun
  /\ previousRun = NoRun
  /\ regraded = <<>>

\* graders set on a case, named apart from the suite's defaults
CaseGraderName(i) == "c" \o ToString(i)

CaseGraderLists ==
  {[i \in 1..Len(f) |-> MakeConfig(CaseGraderName(i), f[i][1], f[i][2], f[i][3])] :
     f \in SeqsUpTo(Policies, MaxGraders)}

\* a grader list argument: undefined, or a list (the empty one included)
GraderChoices(lists) == {NoGraders} \cup {SomeGraders(l) : l \in lists}

NoPipelineResult == [pending |-> TRUE]

\* mutant: the loop walks the configs from the last to the first
NextConfig_Reversed(configs, n) == configs[Len(configs) - n]

\* for (const config of configs): the config of the iteration that follows
\* n finished ones
NextConfig(configs, n) == configs[n + 1]

\* runGraderPipeline from its call to its first await, or to its return when
\* no grader is in effect
EnterPipeline(caseGraders, suiteGraders) ==
  LET configs == EffectiveConfigs(caseGraders, suiteGraders)
  IN [call |-> "runGraderPipeline",
      caseGraders |-> caseGraders, suiteGraders |-> suiteGraders,
      configs |-> configs, grades |-> <<>>,
      calls |-> IF Len(configs) = 0 THEN <<>>
                ELSE <<NextConfig(configs, 0).grader>>,
      state |-> IF Len(configs) = 0 THEN "returned" ELSE "awaitGrader",
      result |-> IF Len(configs) = 0 THEN PipelineResult(<<>>, configs)
                 ELSE NoPipelineResult]

InitPipeline ==
  /\ DirectCall("pipeline")
  /\ scoring = NoScoring
  /\ pipeline = NoPipeline
  /\ compose = NoCompose
  /\ judge = NoJudge
  /\ gate = NoGate
  /\ direct = NoDirect
  /\ watcher = NoWatcher

\* runGraderPipeline(output, expected, caseGraders, suiteGraders, context)
CallPipeline ==
  /\ pc = "pipeline"
  /\ pipeline = NoPipeline
  /\ \E cg \in GraderChoices(CaseGraderLists), sg \in GraderChoices(GraderLists) :
       pipeline' = EnterPipeline(cg, sg)
  /\ UNCHANGED <<runnerVars, scoring, compose, judge, gate, direct, watcher>>

\* the awaited grader resolves: grades.push(grade), then the next iteration
\* invokes its grader or, after the last one, the result is returned
PipelineGraderResolves(pass, score) ==
  /\ pipeline.call = "runGraderPipeline"
  /\ pipeline.state = "awaitGrader"
  /\ LET configs == pipeline.configs
         config == NextConfig(configs, Len(pipeline.grades))
         allGrades == Append(pipeline.grades, MakeGrade(pass, score, config.grader))
     IN pipeline' =
          IF Len(allGrades) < Len(configs)
          THEN [pipeline EXCEPT
                  !.grades = allGrades,
                  !.calls = Append(@, NextConfig(configs, Len(allGrades)).grader)]
          ELSE [pipeline EXCEPT
                  !.grades = allGrades,
                  !.state = "returned",
                  !.result = PipelineResult(allGrades, configs)]
  /\ UNCHANGED <<runnerVars, scoring, compose, judge, gate, direct, watcher>>

\* the awaited grader rejects: nothing in runGraderPipeline catches it
PipelineGraderThrows ==
  /\ pipeline.call = "runGraderPipeline"
  /\ pipeline.state = "awaitGrader"
  /\ pipeline' = [pipeline EXCEPT !.state = "rejected"]
  /\ UNCHANGED <<runnerVars, scoring, compose, judge, gate, direct, watcher>>

NextPipeline ==
  \/ CallPipeline
  \/ \E g \in GradeOutcomes : PipelineGraderResolves(g[1], g[2])
  \/ PipelineGraderThrows

SpecPipeline == InitPipeline /\ [][NextPipeline]_vars

\* ------------------------------------------- direct calls of evaluateGates
MaxGateValue == 2

\* the fields of a RunSummary that evaluateGates reads
GateSummaries ==
  {[passRate |-> r, totalCost |-> c, p95LatencyMs |-> l] :
     r \in {Zero, Half, One}, c \in 0..MaxGateValue, l \in 0..MaxGateValue}

\* gates: undefined, or an object with each of the three limits set or not
GateConfigs ==
  {NoGates} \cup
  {MakeGates(r, c, l) :
     r \in {NoRat, Half, One},
     c \in {Undefined} \cup 0..MaxGateValue,
     l \in {Undefined} \cup 0..MaxGateValue}

InitGates ==
  /\ DirectCall("gates")
  /\ scoring = NoScoring
  /\ pipeline = NoPipeline
  /\ compose = NoCompose
  /\ judge = NoJudge
  /\ gate = NoGate
  /\ direct = NoDirect
  /\ watcher = NoWatcher

\* evaluateGates(summary, gates)
CallEvaluateGates ==
  /\ pc = "gates"
  /\ gate = NoGate
  /\ \E s \in GateSummaries, g \in GateConfigs :
       gate' = [call |-> "evaluateGates", summary |-> s, gates |-> g,
                result |-> evaluateGates(s, g)]
  /\ UNCHANGED <<runnerVars, scoring, pipeline, compose, judge, direct, watcher>>

NextGates == CallEvaluateGates

SpecGates == InitGates /\ [][NextGates]_vars

\* --------------------------------------------- numbers of a composed grade
\* A score is a JavaScript number, an IEEE-754 double.  A double in [0, 1] is
\* 1 or a binary fraction 0.b1 b2 ... bn whose last digit is 1 and whose
\* digits from the first 1 on are at most SigBits many.
SigBits == 53

DblOne == [one |-> TRUE, frac |-> <<>>]
DblZero == [one |-> FALSE, frac |-> <<>>]
Frac(bits) == [one |-> FALSE, frac |-> bits]

RECURSIVE StripZeros(_)
StripZeros(bits) ==
  IF Len(bits) = 0 THEN <<>>
  ELSE IF bits[Len(bits)] = 0 THEN StripZeros(SubSeq(bits, 1, Len(bits) - 1))
  ELSE bits

\* the fraction plus one unit in its last place
RECURSIVE Increment(_)
Increment(bits) ==
  IF Len(bits) = 0 THEN DblOne
  ELSE IF bits[Len(bits)] = 0 THEN Frac([bits EXCEPT ![Len(bits)] = 1])
  ELSE Increment(SubSeq(bits, 1, Len(bits) - 1))

LeadingOne(bits) ==
  CHOOSE i \in 1..Len(bits) : bits[i] = 1 /\ \A j \in 1..(i - 1) : bits[j] = 0

\* round to nearest, ties to even: the double of the exact value whose
\* digits are `bits`, followed by something non-zero when `sticky`
RoundToDouble(bits, sticky) ==
  IF \A i \in 1..Len(bits) : bits[i] = 0 THEN DblZero
  ELSE
    LET last == LeadingOne(bits) + SigBits - 1
    IN IF Len(bits) <= last THEN Frac(StripZeros(bits))
       ELSE
         LET kept == SubSeq(bits, 1, last)
             rest == sticky \/ \E i \in (last + 2)..Len(bits) : bits[i] = 1
             up == bits[last + 1] = 1 /\ (rest \/ kept[last] = 1)
         IN IF up THEN Increment(kept) ELSE Frac(StripZeros(kept))

\* what is left of r / d (r < d) after its first i binary digits, times d
RECURSIVE Rem(_, _, _)
Rem(r, d, i) == IF i = 0 THEN r ELSE (2 * Rem(r, d, i - 1)) % d

\* the first k binary digits of r / d (r < d) and the remainder left
Digits(r, d, k) ==
  [bits |-> [i \in 1..k |-> IF 2 * Rem(r, d, i - 1) >= d THEN 1 ELSE 0],
   rem |-> Rem(r, d, k)]

\* position of the first 1 among the binary digits of r / d (0 < r < d)
RECURSIVE Lead(_, _)
Lead(r, d) == IF 2 * r >= d THEN 1 ELSE 1 + Lead(2 * r, d)

\* the double a decimal literal n/d of a source text denotes (0 <= n <= d)
DoubleOf(n, d) ==
  IF n = 0 THEN DblZero
  ELSE IF n = d THEN DblOne
  ELSE LET q == Digits(n, d, Lead(n, d) + SigBits)
       IN RoundToDouble(q.bits, q.rem # 0)

\* 1 - x in double arithmetic: the exact difference, rounded
OneMinus(x) ==
  IF x.one THEN DblZero
  ELSE IF Len(x.frac) = 0 THEN DblOne
  ELSE LET n == Len(x.frac)
       IN RoundToDouble([i \in 1..n |-> IF i = n THEN 1 ELSE 1 - x.frac[i]], FALSE)

RECURSIVE FracLeq(_, _)
FracLeq(a, b) ==
  IF Len(a) = 0 THEN TRUE
  ELSE IF Len(b) = 0 THEN FALSE
  ELSE IF Head(a) # Head(b) THEN Head(a) < Head(b)
  ELSE FracLeq(Tail(a), Tail(b))

\* a <= b on doubles of [0, 1]
DblLeq(a, b) ==
  IF b.one THEN TRUE
  ELSE IF a.one THEN FALSE
  ELSE FracLeq(a.frac, b.frac)

\* ------------------------------------------------- all, any, not (compose)
MaxChildren == 2

\* Math.min(...scores), Math.max(...scores) of a non-empty list
MathMin(scores) ==
  CHOOSE s \in Range(scores) : \A t \in Range(scores) : DblLeq(s, t)
MathMax(scores) ==
  CHOOSE s \in Range(scores) : \A t \in Range(scores) : DblLeq(t, s)

Scores(results) == [i \in 1..Len(results) |-> results[i].score]

\* Array.prototype.join(sep) of strings
RECURSIVE JoinStr(_, _)
JoinStr(s, sep) ==
  IF Len(s) = 0 THEN ""
  ELSE IF Len(s) = 1 THEN s[1]
  ELSE s[1] \o sep \o JoinStr(Tail(s), sep)

Names(results) == [i \in 1..Len(results) |-> results[i].graderName]
NamedReasons(results) ==
  [i \in 1..Len(results) |-> results[i].graderName \o ": " \o results[i].reason]
Passed(r) == r.pass
Failed(r) == ~r.pass

\* the grade a child grader that is a plain grader function resolves with
LeafGrade(i, pass, score) ==
  [pass |-> pass, score |-> score,
   reason |-> IF pass THEN "passed" ELSE "failed", graderName |-> GraderName(i)]

\* mutant: the score is passed through
NotResult_KeepsScore(result) ==
  [pass |-> ~result.pass, score |-> result.score,
   reason |-> "NOT: " \o result.reason,
   graderName |-> "not(" \o result.graderName \o ")"]

\* not(grader): what it returns once its grader has resolved
NotResult(result) ==
  [pass |-> ~result.pass, score |-> OneMinus(result.score),
   reason |-> "NOT: " \o result.reason,
   graderName |-> "not(" \o result.graderName \o ")"]

\* all(graders): what it returns for the results its loop collected
AllResult(results) ==
  IF Len(results) = 0
  THEN [pass |-> TRUE, score |-> DblOne,
        reason |-> "all() with empty grader list (vacuous truth)",
        graderName |-> "all()"]
  ELSE
    LET allPassed == \A i \in 1..Len(results) : results[i].pass
        failures == SelectSeq(results, Failed)
    IN [pass |-> allPassed, score |-> MathMin(Scores(results)),
        reason |-> IF allPassed
                   THEN "All " \o ToString(Len(results)) \o " graders passed"
                   ELSE JoinStr(NamedReasons(failures), "; "),
        graderName |-> "all(" \o JoinStr(Names(results), ", ") \o ")"]

\* results.filter(pass).sort((a, b) => b.score - a.score)[0]: the sort is
\* stable, so the first passer among those of the highest score
BestPasser(results) ==
  LET passers == SelectSeq(results, Passed)
      top == MathMax(Scores(passers))
      first == CHOOSE i \in 1..Len(passers) :
                 /\ passers[i].score = top
                 /\ \A j \in 1..(i - 1) : passers[j].score # top
  IN passers[first]

\* mutant: the score of the best passer, not the maximum over all children
AnyResult_BestPasserScore(results) ==
  IF Len(results) = 0
  THEN [pass |-> FALSE, score |-> DblZero,
        reason |-> "any() with empty grader list (no successes possible)",
        graderName |-> "any()"]
  ELSE
    LET anyPassed == \E i \in 1..Len(results) : results[i].pass
    IN [pass |-> anyPassed,
        score |-> IF anyPassed THEN BestPasser(results).score
                  ELSE MathMax(Scores(results)),
        reason |-> IF anyPassed THEN BestPasser(results).reason
                   ELSE JoinStr(NamedReasons(results), "; "),
        graderName |-> "any(" \o JoinStr(Names(results), ", ") \o ")"]

\* any(graders): what it returns for the results its loop collected
AnyResult(results) ==
  IF Len(results) = 0
  THEN [pass |-> FALSE, score |-> DblZero,
        reason |-> "any() with empty grader list (no successes possible)",
        graderName |-> "any()"]
  ELSE
    LET anyPassed == \E i \in 1..Len(results) : results[i].pass
    IN [pass |-> anyPassed, score |-> MathMax(Scores(results)),
        reason |-> IF anyPassed THEN BestPasser(results).reason
                   ELSE JoinStr(NamedReasons(results), "; "),
        graderName |-> "any(" \o JoinStr(Names(results), ", ") \o ")"]

CompositeResult(kind, results) ==
  IF kind = "all" THEN AllResult(results)
  ELSE IF kind = "any" THEN AnyResult(results)
  ELSE NotResult(results[1])

\* mutant: the loop stops at the child that settles the verdict
ContinueLoop_ShortCircuit(kind, results, n) ==
  /\ Len(results) < n
  /\ kind = "all" => results[Len(results)].pass
  /\ kind = "any" => ~results[Len(results)].pass

\* for (const grader of graders) has no break: it goes on while a child is left
ContinueLoop(kind, results, n) == Len(results) < n

\* scores a child grader may resolve with, written as decimal literals
LeafScores ==
  {DblZero, DoubleOf(1, 10), DoubleOf(1, 4), DoubleOf(7, 10), DblOne}

LeafOutcomes == BOOLEAN \X LeafScores

\* a composite: all or any over a list of children, or not over one child;
\* a child is a plain grader g_i ("leaf") or not(g_i) ("not")
Composites ==
  {<<k, cs>> : k \in {"all", "any"}, cs \in SeqsUpTo({"leaf", "not"}, MaxChildren)}
  \cup {<<"not", <<c>>>> : c \in {"leaf", "not"}}

NoCompositeResult == [pending |-> TRUE]

\* the composite grader from its call to its first await, or to its return
\* for an empty all or any
EnterComposite(kind, children) ==
  [call |-> kind, children |-> children, results |-> <<>>, leafResults |-> <<>>,
   calls |-> IF Len(children) = 0 THEN <<>> ELSE <<GraderName(1)>>,
   state |-> IF Len(children) = 0 THEN "returned" ELSE "awaitChild",
   result |-> IF Len(children) = 0 THEN CompositeResult(kind, <<>>)
              ELSE NoCompositeResult]

InitCompose ==
  /\ DirectCall("compose")
  /\ scoring = NoScoring
  /\ pipeline = NoPipeline
  /\ compose = NoCompose
  /\ judge = NoJudge
  /\ gate = NoGate
  /\ direct = NoDirect
  /\ watcher = NoWatcher

\* the grader built by all(graders), any(graders) or not(grader) is called
CallComposite ==
  /\ pc = "compose"
  /\ compose = NoCompose
  /\ \E c \in Composites : compose' = EnterComposite(c[1], c[2])
  /\ UNCHANGED <<runnerVars, scoring, pipeline, judge, gate, direct, watcher>>

\* the grader function of the awaited child resolves; a child not(g_i)
\* returns with it; results.push(result), then the next child is invoked
\* or the composite returns
ChildResolves(pass, score) ==
  /\ compose.call # "none"
  /\ compose.state = "awaitChild"
  /\ LET i == Len(compose.results) + 1
         leaf == LeafGrade(i, pass, score)
         result == IF compose.children[i] = "not" THEN NotResult(leaf) ELSE leaf
         results == Append(compose.results, result)
     IN compose' =
          IF ContinueLoop(compose.call, results, Len(compose.children))
          THEN [compose EXCEPT
                  !.results = results,
                  !.leafResults = Append(@, leaf),
                  !.calls = Append(@, GraderName(i + 1))]
          ELSE [compose EXCEPT
                  !.results = results,
                  !.leafResults = Append(@, leaf),
                  !.state = "returned",
                  !.result = CompositeResult(compose.call, results)]
  /\ UNCHANGED <<runnerVars, scoring, pipeline, judge, gate, direct, watcher>>

\* the awaited child rejects: no combinator catches, the composite rejects
ChildThrows ==
  /\ compose.call # "none"
  /\ compose.state = "awaitChild"
  /\ compose' = [compose EXCEPT !.state = "rejected"]
  /\ UNCHANGED <<runnerVars, scoring, pipeline, judge, gate, direct, watcher>>

NextCompose ==
  \/ CallComposite
  \/ \E o \in LeafOutcomes : ChildResolves(o[1], o[2])
  \/ ChildThrows

SpecCompose == InitCompose /\ [][NextCompose]_vars

\* ------------------------------------------------ judge response parser
MAX_REASONING_LENGTH == 2000
DEFAULT_JUDGE_PASS_THRESHOLD == Q(3, 4)

\* score * 0.25
judgeScoreToGradeScore(score) == Q(score.num, 4 * score.den)

\* A judge text is a sequence of lexemes; a value is what JSON.parse makes
\* of a member's value, `undefined` being a property that is not there.
JNull == [type |-> "null", num |-> NoRat, str |-> <<>>]
JUndefined == [type |-> "undefined", num |-> NoRat, str |-> <<>>]
JNum(q) == [type |-> "number", num |-> q, str |-> <<>>]
JStr(s) == [type |-> "string", num |-> NoRat, str |-> s]

Tok(t, s) == [t |-> t, s |-> s, key |-> "", v |-> JUndefined]
\* the member "key": value of a JSON object
Pair(key, v) == [t |-> "pair", s |-> "", key |-> key, v |-> v]
Space == Tok("ws", " ")
Newline == Tok("ws", "\n")
Word(s) == Tok("word", s)
Digit(d) == Tok("digit", ToString(d))
Colon == Tok("sep", ":")
Equals == Tok("sep", "=")
LBrace == Tok("brace", "{")
RBrace == Tok("brace", "}")
Comma == Tok("comma", ",")
\* the three backquotes that open or close a code block
Fence == Tok("fence", "fence")
JsonTag == Word("json")
NullTok == Tok("literal", "null")
ArrayTok == Tok("literal", "[]")

IsWs(tok) == tok.t = "ws"
NotWs(tok) == tok.t # "ws"
IsPair(tok) == tok.t = "pair"

SetMin(S) == CHOOSE x \in S : \A y \in S : x <= y
SetMax(S) == CHOOSE x \in S : \A y \in S : x >= y

\* String.prototype.trim
Trim(s) ==
  LET solid == {i \in 1..Len(s) : ~IsWs(s[i])}
  IN IF solid = {} THEN <<>> ELSE SubSeq(s, SetMin(solid), SetMax(solid))

\* String.prototype.slice(0, n), lengths counted in lexemes
SliceTo(s, n) == IF Len(s) <= n THEN s ELSE SubSeq(s, 1, n)

\* String.prototype.indexOf: where `part` first occurs in `text`
IndexOf(text, part) ==
  SetMin({k \in 1..(Len(text) - Len(part) + 1) :
            SubSeq(text, k, k + Len(part) - 1) = part})

\* the /i flag: the lexeme in lower case
Lower(s) ==
  IF s \in {"Score", "SCORE"} THEN "score"
  ELSE IF s \in {"Rating", "RATING"} THEN "rating"
  ELSE IF s \in {"Reasoning", "REASONING"} THEN "reasoning"
  ELSE IF s \in {"Evaluation", "EVALUATION"} THEN "evaluation"
  ELSE IF s \in {"Explanation", "EXPLANATION"} THEN "explanation"
  ELSE s

\* ---- JSON.parse
JsonError == [ok |-> FALSE, type |-> "error", pairs |-> <<>>]
JsonValue(type, pairs) == [ok |-> TRUE, type |-> type, pairs |-> pairs]

\* members of an object: pair (, pair)*
WellFormedMembers(inner) ==
  \/ Len(inner) = 0
  \/ /\ Len(inner) % 2 = 1
     /\ \A i \in 1..Len(inner) :
          IF i % 2 = 1 THEN IsPair(inner[i]) ELSE inner[i] = Comma

\* JSON.parse(s): an object, an array, null, a number, or a SyntaxError
JsonParse(s) ==
  LET t == Trim(s)
  IN IF Len(t) = 0 THEN JsonError
     ELSE IF t[1] = LBrace
     THEN IF Len(t) < 2 \/ t[Len(t)] # RBrace THEN JsonError
          ELSE LET inner == SelectSeq(SubSeq(t, 2, Len(t) - 1), NotWs)
               IN IF WellFormedMembers(inner)
                  THEN JsonValue("object", SelectSeq(inner, IsPair))
                  ELSE JsonError
     ELSE IF Len(t) = 1 /\ t[1] = NullTok THEN JsonValue("null", <<>>)
     ELSE IF Len(t) = 1 /\ t[1] = ArrayTok THEN JsonValue("array", <<>>)
     ELSE IF /\ \A i \in 1..Len(t) : t[i].t = "digit"
             /\ (Len(t) = 1 \/ t[1] # Digit(0))
     THEN JsonValue("number", <<>>)
     ELSE JsonError

\* ---- shared validation
NoParsed == [found |-> FALSE, reasoning |-> <<>>, score |-> NoRat, rawText |-> <<>>]
Parsed(reasoning, score, rawText) ==
  [found |-> TRUE, reasoning |-> reasoning, score |-> score, rawText |-> rawText]

\* record.key: the value of the last member of that name
Lookup(pairs, key) ==
  LET at == {i \in 1..Len(pairs) : pairs[i].key = key}
  IN IF at = {} THEN JUndefined ELSE pairs[SetMax(at)].v

\* a ?? b ?? c ...
RECURSIVE Coalesce(_)
Coalesce(vs) ==
  IF Len(vs) = 1 THEN vs[1]
  ELSE IF vs[1].type \notin {"null", "undefined"} THEN vs[1]
  ELSE Coalesce(Tail(vs))

\* mutant: no upper limit on the score
ValidScore_NoUpperBound(rawScore) ==
  /\ rawScore.type = "number"
  /\ RatGeq(rawScore.num, One)
  /\ rawScore.num.den = 1

\* typeof rawScore === "number", 1 <= rawScore <= 4, Number.isInteger
ValidScore(rawScore) ==
  /\ rawScore.type = "number"
  /\ RatGeq(rawScore.num, One)
  /\ RatLeq(rawScore.num, Q(4, 1))
  /\ rawScore.num.den = 1

validateParsed(obj, rawText) ==
  IF obj.type \notin {"object", "array"} THEN NoParsed
  ELSE
    LET rawScore == Coalesce(<<Lookup(obj.pairs, "score"), Lookup(obj.pairs, "rating"),
                               Lookup(obj.pairs, "total_rating")>>)
        rawReasoning == Coalesce(<<Lookup(obj.pairs, "reasoning"),
                                   Lookup(obj.pairs, "evaluation"),
                                   Lookup(obj.pairs, "explanation"),
                                   Lookup(obj.pairs, "rationale")>>)
    IN IF ~ValidScore(rawScore) THEN NoParsed
       ELSE IF rawReasoning.type # "string" \/ Len(Trim(rawReasoning.str)) = 0
       THEN NoParsed
       ELSE Parsed(SliceTo(Trim(rawReasoning.str), MAX_REASONING_LENGTH),
                   rawScore.num, rawText)

\* ---- layer 1
tryStrictJson(text) ==
  LET parsed == JsonParse(Trim(text))
  IN IF parsed.ok THEN validateParsed(parsed, text) ELSE NoParsed

\* ---- layer 2
NoMatch == [found |-> FALSE, group |-> <<>>]
Match(group) == [found |-> TRUE, group |-> group]

\* the first position from i on that holds no white space
SkipWs(text, i) ==
  SetMin({j \in i..(Len(text) + 1) : j > Len(text) \/ ~IsWs(text[j])})

\* text.match(/```(?:json)?\s*\n?([\s\S]*?)\n?```/): group 1
codeBlockMatch(text) ==
  LET fences == {i \in 1..Len(text) : text[i] = Fence}
  IN IF Cardinality(fences) < 2 THEN NoMatch
     ELSE
       LET open == SetMin(fences)
           afterTag == IF text[open + 1] = JsonTag THEN open + 2 ELSE open + 1
           start == SkipWs(text, afterTag)
           close == SetMin({j \in fences : j >= start})
       IN Match(SubSeq(text, start, close - 1))

\* text.match(/\{[\s\S]*\}/): from the first { to the last }
objectMatch(text) ==
  LET opens == {i \in 1..Len(text) : text[i] = LBrace}
  IN IF opens = {} THEN NoMatch
     ELSE
       LET closes == {j \in (SetMin(opens) + 1)..Len(text) : text[j] = RBrace}
       IN IF closes = {} THEN NoMatch
          ELSE Match(SubSeq(text, SetMin(opens), SetMax(closes)))

tryExtractJson(text) ==
  LET block == codeBlockMatch(text)
      blockJson == JsonParse(Trim(block.group))
      object == objectMatch(text)
      objectJson == JsonParse(object.group)
  IN IF block.found /\ Len(block.group) > 0 /\ blockJson.ok
     THEN validateParsed(blockJson, text)
     ELSE IF object.found /\ objectJson.ok
     THEN validateParsed(objectJson, text)
     ELSE NoParsed

\* ---- layer 3
IsScoreWord(tok) == tok.t = "word" /\ Lower(tok.s) \in {"score", "rating"}
IsReasonWord(tok) ==
  tok.t = "word" /\ Lower(tok.s) \in {"reasoning", "evaluation", "explanation"}
IsSep(tok) == tok.t = "sep"

\* Number(scoreMatch[1])
DigitValue(s) == CHOOSE d \in 0..9 : ToString(d) = s

\* (?!\d): the digit at b is not followed by another digit
NotFollowedByDigit(text, b) == b = Len(text) \/ text[b + 1].t # "digit"

\* where the digit of /(?:score|rating)\s*[:=]\s*([1-4])(?!\d)/i lies when
\* the pattern matches from position i on, 0 when it does not
ScoreDigitAt(text, i) ==
  IF ~IsScoreWord(text[i]) THEN 0
  ELSE LET a == SkipWs(text, i + 1)
       IN IF a > Len(text) \/ ~IsSep(text[a]) THEN 0
          ELSE LET b == SkipWs(text, a + 1)
               IN IF /\ b <= Len(text)
                     /\ text[b].t = "digit"
                     /\ DigitValue(text[b].s) \in 1..4
                     /\ NotFollowedByDigit(text, b)
                  THEN b ELSE 0

\* (?=\n\s*(?:score|rating)|$) after position q
ReasonEndsAt(text, q) ==
  \/ q = Len(text)
  \/ /\ text[q + 1] = Newline
     /\ LET k == SkipWs(text, q + 2) IN k <= Len(text) /\ IsScoreWord(text[k])

\* group 1 of /(?:reasoning|evaluation|explanation)\s*[:=]\s*([\s\S]+?)
\* (?=\n\s*(?:score|rating)|$)/i when the pattern matches from position i on
ReasonGroupAt(text, i) ==
  IF ~IsReasonWord(text[i]) THEN NoMatch
  ELSE LET a == SkipWs(text, i + 1)
       IN IF a > Len(text) \/ ~IsSep(text[a]) THEN NoMatch
          ELSE LET b == SkipWs(text, a + 1)
               IN IF b <= Len(text)
                  THEN Match(SubSeq(text, b,
                         SetMin({q \in b..Len(text) : ReasonEndsAt(text, q)})))
                  ELSE IF a < Len(text)
                  THEN Match(<<text[Len(text)]>>)  \* \s* gives one character back
                  ELSE NoMatch

tryPatternMatch(text) ==
  LET scoreAt == {i \in 1..Len(text) : ScoreDigitAt(text, i) > 0}
  IN IF scoreAt = {} THEN NoParsed
     ELSE
       LET from == SetMin(scoreAt)
           digit == ScoreDigitAt(text, from)
           score == DigitValue(text[digit].s)
           matched == SubSeq(text, from, digit)
           reasonAt == {i \in 1..Len(text) : ReasonGroupAt(text, i).found}
           reasoning ==
             IF reasonAt # {}
             THEN Trim(ReasonGroupAt(text, SetMin(reasonAt)).group)
             ELSE Trim(SubSeq(text, 1, IndexOf(text, matched) - 1))
       IN IF Len(reasoning) = 0 THEN NoParsed
          ELSE Parsed(SliceTo(reasoning, MAX_REASONING_LENGTH), Q(score, 1), text)

\* ---- parseJudgeResponse; `layer` tells which layer produced the result
\* mutant: a text no layer parses defaults to a passing score
JudgeParseError_DefaultPass(text, error) ==
  [success |-> TRUE, layer |-> 0, parsed |-> Parsed(<<Word("unparsed")>>, Q(3, 1), text),
   rawText |-> text, error |-> error]

JudgeParseError(text, error) ==
  [success |-> FALSE, layer |-> 0, parsed |-> NoParsed, rawText |-> text,
   error |-> error]
JudgeParseSuccess(text, parsed, layer) ==
  [success |-> TRUE, layer |-> layer, parsed |-> parsed, rawText |-> text,
   error |-> <<>>]

parseJudgeResponse(text) ==
  IF Len(text) = 0 \/ Len(Trim(text)) = 0
  THEN JudgeParseError(text, <<"Empty judge response.">>)
  ELSE IF tryStrictJson(text).found
  THEN JudgeParseSuccess(text, tryStrictJson(text), 1)
  ELSE IF tryExtractJson(text).found
  THEN JudgeParseSuccess(text, tryExtractJson(text), 2)
  ELSE IF tryPatternMatch(text).found
  THEN JudgeParseSuccess(text, tryPatternMatch(text), 3)
  ELSE JudgeParseError(text, <<"Could not parse judge response.">>)

\* ---- judge texts
MaxPairs == 2

Ok == Word("ok")

\* members a judge may write: scores in and out of range, of the wrong
\* type or null, under each accepted name; reasonings likewise
PairTokens ==
  {Pair("score", JNum(Q(3, 1))), Pair("score", JNum(Q(5, 1))),
   Pair("score", JNum(Q(7, 2))), Pair("score", JNum(Q(0, 1))),
   Pair("score", JNull), Pair("score", JStr(<<Word("3")>>)),
   Pair("rating", JNum(Q(4, 1))), Pair("total_rating", JNum(Q(1, 1))),
   Pair("reasoning", JStr(<<Ok>>)), Pair("reasoning", JStr(<<>>)),
   Pair("reasoning", JNull), Pair("evaluation", JStr(<<Space>>)),
   Pair("explanation", JStr(<<Space, Ok>>)), Pair("rationale", JStr(<<Ok>>))}

RECURSIVE Members(_)
Members(ps) ==
  IF Len(ps) = 0 THEN <<>>
  ELSE IF Len(ps) = 1 THEN <<ps[1]>>
  ELSE <<ps[1], Comma>> \o Members(Tail(ps))

\* JSON.stringify of an object with the members ps
Object(ps) == <<LBrace>> \o Members(ps) \o <<RBrace>>

Objects == {Object(ps) : ps \in SeqsUpTo(PairTokens, MaxPairs)}

GoodObject == Object(<<Pair("reasoning", JStr(<<Ok>>)), Pair("score", JNum(Q(3, 1)))>>)

\* an object alone, padded, in a code block, with text around it, or in a
\* code block that a second object follows
ObjectTexts ==
  UNION {{o,
          <<Space>> \o o \o <<Newline>>,
          <<Fence, JsonTag, Newline>> \o o \o <<Newline, Fence>>,
          <<Fence>> \o o \o <<Fence>>,
          <<Word("good"), Newline>> \o o,
          o \o <<Space, Word("good")>>,
          <<Fence, JsonTag, Newline>> \o o \o <<Newline, Fence, Newline>> \o GoodObject}
         : o \in Objects}

ReasonParts ==
  {<<>>, <<Word("good"), Newline>>,
   <<Word("Reasoning"), Colon, Space, Ok, Newline>>,
   <<Word("EVALUATION"), Equals, Ok, Newline>>,
   <<Word("Reasoning"), Colon, Newline>>,
   <<Word("rationale"), Colon, Ok, Newline>>}
ScoreWords == {Word("Score"), Word("SCORE"), Word("rating"), Word("grade")}
SepParts == {<<Colon>>, <<Colon, Space>>, <<Space, Equals, Space>>, <<Space>>}
NumberParts ==
  {<<Digit(3)>>, <<Digit(1), Digit(0)>>, <<Digit(7)>>, <<Digit(0)>>,
   <<Digit(4), Word("stars")>>, <<>>}
TailParts == {<<>>, <<Newline, Word("Explanation"), Colon, Space, Ok>>}

\* free text with a score line
PatternTexts ==
  {r \o <<w>> \o s \o n \o t :
     r \in ReasonParts, w \in ScoreWords, s \in SepParts, n \in NumberParts,
     t \in TailParts}

EmptyText == <<>>
ScoreTen == <<Word("Score"), Colon, Space, Digit(1), Digit(0)>>

OtherTexts ==
  {EmptyText, ScoreTen, <<Space>>, <<Newline, Space>>, <<Word("random"), Space, Word("text")>>,
   <<Digit(3)>>, <<NullTok>>, <<ArrayTok>>, <<Fence, Fence>>, <<LBrace>>,
   <<RBrace, LBrace>>, <<Word("Reasoning"), Colon>>,
   ScoreTen \o <<Space, Word("Score"), Colon, Space, Digit(1)>>}

JudgeTexts == ObjectTexts \cup PatternTexts \cup OtherTexts

\* ---- llmRubric
\* the judge handle of the factory options and that of the grader context
JudgeHandles == {"none", "optsJudge"} \X {"none", "contextJudge"}

\* opts.judge takes precedence over context.judge
ResolveJudge(optsJudge, contextJudge) ==
  IF optsJudge # "none" THEN optsJudge ELSE contextJudge

PassThresholds == {DEFAULT_JUDGE_PASS_THRESHOLD, Half}

JudgeErrors == {<<"API rate limit exceeded">>}

\* texts a judge answers a rubric with
RubricTexts == {t \in JudgeTexts : Len(t) <= 5}

RubricFailure(reason) ==
  [pass |-> FALSE, score |-> Zero, reason |-> reason, graderName |-> "llm-rubric"]

NoJudgeGrade == RubricFailure(<<"No judge configured">>)

JudgeFailedGrade(message) == RubricFailure(<<"Judge call failed", ": ">> \o message)

UnparseableGrade(parse) ==
  RubricFailure(<<"Judge response ", "unparseable", ": ">> \o parse.error)

\* the grade of a judge text: score = judgeScore * 0.25, pass = score >= passThreshold
RubricGrade(text, passThreshold) ==
  LET parse == parseJudgeResponse(text)
      score == judgeScoreToGradeScore(parse.parsed.score)
  IN IF ~parse.success THEN UnparseableGrade(parse)
     ELSE [pass |-> RatGeq(score, passThreshold), score |-> score,
           reason |-> [i \in 1..Len(parse.parsed.reasoning) |-> parse.parsed.reasoning[i].s],
           graderName |-> "llm-rubric"]

NoGrade == [pending |-> TRUE]

InitJudge ==
  /\ DirectCall("judge")
  /\ scoring = NoScoring
  /\ pipeline = NoPipeline
  /\ compose = NoCompose
  /\ judge = NoJudge
  /\ gate = NoGate
  /\ direct = NoDirect
  /\ watcher = NoWatcher

\* parseJudgeResponse(text)
CallParseJudgeResponse ==
  /\ pc = "judge"
  /\ judge = NoJudge
  /\ \E text \in JudgeTexts :
       judge' = [call |-> "parseJudgeResponse", text |-> text,
                 result |-> parseJudgeResponse(text)]
  /\ UNCHANGED <<runnerVars, scoring, pipeline, compose, gate, direct, watcher>>

\* the grader llmRubric(opts) is called: with no judge it returns a failure,
\* otherwise it calls the judge and awaits the answer
CallLlmRubric ==
  /\ pc = "judge"
  /\ judge = NoJudge
  /\ \E h \in JudgeHandles, t \in PassThresholds :
       LET resolved == ResolveJudge(h[1], h[2])
       IN judge' = [call |-> "llmRubric", optsJudge |-> h[1], contextJudge |-> h[2],
                    passThreshold |-> t,
                    calls |-> IF resolved = "none" THEN <<>> ELSE <<resolved>>,
                    state |-> IF resolved = "none" THEN "returned" ELSE "awaitJudge",
                    outcome |-> "none", text |-> <<>>, message |-> <<>>,
                    grade |-> IF resolved = "none" THEN NoJudgeGrade ELSE NoGrade]
  /\ UNCHANGED <<runnerVars, scoring, pipeline, compose, gate, direct, watcher>>

\* the judge call resolves with {text}
JudgeReturns(text) ==
  /\ judge.call = "llmRubric"
  /\ judge.state = "awaitJudge"
  /\ judge' = [judge EXCEPT !.state = "returned", !.outcome = "returned",
                            !.text = text,
                            !.grade = RubricGrade(text, judge.passThreshold)]
  /\ UNCHANGED <<runnerVars, scoring, pipeline, compose, gate, direct, watcher>>

\* the judge call rejects
JudgeThrows(message) ==
  /\ judge.call = "llmRubric"
  /\ judge.state = "awaitJudge"
  /\ judge' = [judge EXCEPT !.state = "returned", !.outcome = "threw",
                            !.message = message,
                            !.grade = JudgeFailedGrade(message)]
  /\ UNCHANGED <<runnerVars, scoring, pipeline, compose, gate, direct, watcher>>

NextJudge ==
  \/ CallParseJudgeResponse
  \/ CallLlmRubric
  \/ \E text \in RubricTexts : JudgeReturns(text)
  \/ \E message \in JudgeErrors : JudgeThrows(message)

SpecJudge == InitJudge /\ [][NextJudge]_vars

\* ------------------------------------- direct calls of other functions
\* every variable but `direct`
directOthers == <<runnerVars, scoring, pipeline, compose, judge, gate, watcher>>

InitDirect(of) ==
  /\ DirectCall(of)
  /\ scoring = NoScoring
  /\ pipeline = NoPipeline
  /\ compose = NoCompose
  /\ judge = NoJudge
  /\ gate = NoGate
  /\ direct = NoDirect
  /\ watcher = NoWatcher

\* ---- computePartialSummary over the trials of a long Run
MaxTrials == 21

\* latencies of n trials: a stride through the residues of a modulus
Latencies(n, stride, start, modulus) ==
  [i \in 1..n |-> (stride * i + start) % modulus]

\* n trials with these latencies; every `every`-th target threw, and the
\* trial of executeCase's catch block reports its duration as latency
SummaryTrials(lat, every) ==
  [i \in 1..Len(lat) |->
     IF i % every = 0
     THEN ErrorTrial(CaseId(i), <<"boom">>, lat[i])
     ELSE GradedTrial(CaseId(i),
                      [text |-> <<"ok">>, latencyMs |-> lat[i], cost |-> Undefined],
                      [grades |-> <<>>, caseResult |-> [pass |-> TRUE, score |-> One]],
                      lat[i] + 1)]

TrialLists ==
  {SummaryTrials(Latencies(n, stride, start, modulus), every) :
     n \in 0..MaxTrials, stride \in {1, 3, 22}, start \in 0..2,
     modulus \in {2, 23}, every \in {2, 5}}

InitSummary == InitDirect("summary")

\* computePartialSummary(trials, totalDurationMs)
CallComputePartialSummary ==
  /\ pc = "summary"
  /\ direct = NoDirect
  /\ \E ts \in TrialLists :
       direct' = [call |-> "computePartialSummary", trials |-> ts,
                  summary |-> computePartialSummary(ts, 0)]
  /\ UNCHANGED directOthers

NextSummary == CallComputePartialSummary

SpecSummary == InitSummary /\ [][NextSummary]_vars

\* ---- compareRuns
DEFAULT_SCORE_THRESHOLD == Q(1, 20)

RatSub(a, b) == Q(a.num * b.den - b.num * a.den, a.den * b.den)
RatNeg(a) == [num |-> 0 - a.num, den |-> a.den]
RatLt(a, b) == ~RatGeq(a, b)

\* mutant: a delta equal to the threshold already counts as a change
DeltaDirection_Exclusive(scoreDelta, scoreThreshold) ==
  IF RatLeq(scoreDelta, RatNeg(scoreThreshold)) /\ scoreDelta # Zero THEN "regression"
  ELSE IF RatGeq(scoreDelta, scoreThreshold) /\ scoreDelta # Zero THEN "improvement"
  ELSE "unchanged"

\* the thresholded score-delta rule
DeltaDirection(scoreDelta, scoreThreshold) ==
  IF RatLt(scoreDelta, RatNeg(scoreThreshold)) THEN "regression"
  ELSE IF RatLt(scoreThreshold, scoreDelta) THEN "improvement"
  ELSE "unchanged"

\* a case of both runs; `other` is the direction of a change of status
\* between fail and error, for which no rule is given
CaseDirection(base, compare, scoreThreshold, other) ==
  IF base.status = "pass" /\ compare.status # "pass" THEN "regression"
  ELSE IF base.status # "pass" /\ compare.status = "pass" THEN "improvement"
  ELSE IF base.status = compare.status
       THEN DeltaDirection(RatSub(compare.score, base.score), scoreThreshold)
  ELSE other

\* Map<caseId, Trial> of a run: the last trial of a case id wins
TrialOf(r, id) ==
  r.trials[CHOOSE i \in 1..Len(r.trials) :
             /\ r.trials[i].caseId = id
             /\ \A j \in (i + 1)..Len(r.trials) : r.trials[j].caseId # id]

RunCaseIds(r) == {r.trials[i].caseId : i \in 1..Len(r.trials)}

CaseComparison(baseRun, compareRun, id, scoreThreshold, other) ==
  IF id \notin RunCaseIds(baseRun)
  THEN [caseId |-> id, direction |-> "added", baseStatus |-> "undefined",
        compareStatus |-> TrialOf(compareRun, id).status, scoreDelta |-> Zero]
  ELSE IF id \notin RunCaseIds(compareRun)
  THEN [caseId |-> id, direction |-> "removed",
        baseStatus |-> TrialOf(baseRun, id).status,
        compareStatus |-> "undefined", scoreDelta |-> Zero]
  ELSE LET b == TrialOf(baseRun, id)
           c == TrialOf(compareRun, id)
       IN [caseId |-> id, direction |-> CaseDirection(b, c, scoreThreshold, other),
           baseStatus |-> b.status, compareStatus |-> c.status,
           scoreDelta |-> RatSub(c.score, b.score)]

CountDirection(cases, direction) ==
  Cardinality({id \in DOMAIN cases : cases[id].direction = direction})

\* compareRuns(baseRun, compareRun, { scoreThreshold }); the case comparisons
\* are kept by case id
compareRuns(baseRun, compareRun, scoreThreshold, other) ==
  LET threshold == IF scoreThreshold = NoRat THEN DEFAULT_SCORE_THRESHOLD
                   ELSE scoreThreshold
      cases == [id \in RunCaseIds(baseRun) \cup RunCaseIds(compareRun) |->
                  CaseComparison(baseRun, compareRun, id, threshold, other)]
  IN [baseRunId |-> baseRun.id, compareRunId |-> compareRun.id,
      cases |-> cases,
      summary |-> [totalCases |-> Cardinality(DOMAIN cases),
                   regressions |-> CountDirection(cases, "regression"),
                   improvements |-> CountDirection(cases, "improvement"),
                   unchanged |-> CountDirection(cases, "unchanged"),
                   added |-> CountDirection(cases, "added"),
                   removed |-> CountDirection(cases, "removed")]]

MaxCompareCases == 2

CompareCaseId(i) == "C0" \o ToString(i)

\* makeTrial(caseId, status, score) of the compare tests
CompareTrials(i) ==
  {[caseId |-> CompareCaseId(i), status |-> st, score |-> sc] :
     st \in {"pass", "fail", "error"}, sc \in {Q(1, 4), Half}}

\* the trial lists of a run over the cases 1..n, each case present or not
RECURSIVE CompareTrialLists(_)
CompareTrialLists(n) ==
  IF n = 0 THEN {<<>>}
  ELSE LET shorter == CompareTrialLists(n - 1)
       IN shorter \cup {Append(l, t) : l \in shorter, t \in CompareTrials(n)}

CompareRunsOf(id) ==
  {[id |-> id, trials |-> l] : l \in CompareTrialLists(MaxCompareCases)}

ScoreThresholds == {NoRat, Q(1, 4)}

Directions == {"regression", "improvement", "unchanged"}

InitCompare == InitDirect("compare")

CallCompareRuns ==
  /\ pc = "compare"
  /\ direct = NoDirect
  /\ \E b \in CompareRunsOf("base"), c \in CompareRunsOf("compare"),
        t \in ScoreThresholds, other \in Directions :
       direct' = [call |-> "compareRuns", base |-> b, compare |-> c,
                  scoreThreshold |-> t,
                  result |-> compareRuns(b, c, t, other)]
  /\ UNCHANGED directOthers

NextCompare == CallCompareRuns

SpecCompare == InitCompare /\ [][NextCompare]_vars

\* ---- toolSequence
ToolNames == {"search", "parse", "format"}

\* the order of the default Array.prototype.sort on these names
NameRank(name) == CASE name = "format" -> 1 [] name = "parse" -> 2 [] name = "search" -> 3

RECURSIVE InsertName(_, _)
InsertName(x, s) == IF Len(s) = 0 THEN <<x>>
                    ELSE IF NameRank(x) < NameRank(s[1]) THEN <<x>> \o s
                    ELSE <<s[1]>> \o InsertName(x, Tail(s))

\* [...names].sort()
RECURSIVE SortNames(_)
SortNames(s) == IF Len(s) = 0 THEN <<>> ELSE InsertName(s[1], SortNames(Tail(s)))

\* the first position (0-based) at which two lists of one length differ, or -1
FirstMismatch(a, b) ==
  LET differs == {i \in 1..Len(a) : a[i] # b[i]}
  IN IF differs = {} THEN -1 ELSE SetMin(differs) - 1

\* array.filter(keep)
RECURSIVE Filter(_, _)
Filter(s, keep) ==
  IF Len(s) = 0 THEN <<>>
  ELSE (IF s[1] \in keep THEN <<s[1]>> ELSE <<>>) \o Filter(Tail(s), keep)

MatchOk == [pass |-> TRUE, reason |-> <<>>]
MatchFail(reason) == [pass |-> FALSE, reason |-> reason]

matchSequence(actual, expected, mode) ==
  CASE mode = "strict" ->
         IF Len(actual) # Len(expected)
         THEN MatchFail(<<"Length mismatch: ", ToString(Len(actual)), " vs ",
                          ToString(Len(expected))>>)
         ELSE IF FirstMismatch(actual, expected) # -1
         THEN MatchFail(<<"Mismatch at position ",
                          ToString(FirstMismatch(actual, expected))>>)
         ELSE MatchOk
    [] mode = "unordered" ->
         LET sortedActual == SortNames(actual)
             sortedExpected == SortNames(expected)
         IN IF Len(sortedActual) # Len(sortedExpected)
            THEN MatchFail(<<"Count mismatch: ", ToString(Len(sortedActual)), " vs ",
                             ToString(Len(sortedExpected))>>)
            ELSE IF FirstMismatch(sortedActual, sortedExpected) # -1
            THEN MatchFail(<<"Different tools called (unordered comparison)">>)
            ELSE MatchOk
    [] mode = "subset" ->
         LET missing == Filter(expected, ToolNames \ Range(actual))
         IN IF Len(missing) > 0
            THEN MatchFail(<<"Missing expected tools: ">> \o Join(missing))
            ELSE MatchOk
    [] mode = "superset" ->
         LET extra == Filter(actual, ToolNames \ Range(expected))
         IN IF Len(extra) > 0
            THEN MatchFail(<<"Unexpected tools called: ">> \o Join(extra))
            ELSE MatchOk

\* output.toolCalls is optional
NoToolCalls == [present |-> FALSE, list |-> <<>>]
ToolCalls(list) == [present |-> TRUE, list |-> list]

\* the grader toolSequence(tools, mode) applied to an output
toolSequence(tools, mode, toolCalls) ==
  LET graderName == <<"toolSequence(">> \o tools \o <<"|", mode, ")">>
  IN IF ~toolCalls.present \/ Len(toolCalls.list) = 0
     THEN IF Len(tools) = 0
          THEN [pass |-> TRUE, score |-> One,
                reason |-> <<"No tools expected and none called">>,
                graderName |-> graderName]
          ELSE [pass |-> FALSE, score |-> Zero,
                reason |-> <<"No tool calls in output, expected: ">> \o Join(tools),
                graderName |-> graderName]
     ELSE LET actualNames == [i \in 1..Len(toolCalls.list) |-> toolCalls.list[i].name]
              result == matchSequence(actualNames, tools, mode)
          IN [pass |-> result.pass,
              score |-> IF result.pass THEN One ELSE Zero,
              reason |-> IF result.pass
                         THEN <<"Tool sequence matches (", mode, "): ">> \o actualNames
                         ELSE <<"Tool sequence mismatch (", mode, "). ">> \o result.reason,
              graderName |-> graderName]

MaxTools == 3

ToolSequenceModes == {"strict", "unordered", "subset", "superset"}

NamedCalls(names) == [i \in 1..Len(names) |-> [name |-> names[i]]]

\* outputs without toolCalls, and with up to MaxTools calls
SequenceOutputs ==
  {NoToolCalls} \cup {ToolCalls(NamedCalls(names)) : names \in SeqsUpTo(ToolNames, MaxTools)}

InitToolSequence == InitDirect("toolSequence")

CallToolSequence ==
  /\ pc = "toolSequence"
  /\ direct = NoDirect
  /\ \E tools \in SeqsUpTo(ToolNames, MaxTools), mode \in ToolSequenceModes,
        calls \in SequenceOutputs :
       direct' = [call |-> "toolSequence", tools |-> tools, mode |-> mode,
                  toolCalls |-> calls, result |-> toolSequence(tools, mode, calls)]
  /\ UNCHANGED directOthers

NextToolSequence == CallToolSequence

SpecToolSequence == InitToolSequence /\ [][NextToolSequence]_vars

\* ---- toolArgsMatch
\* JSON values: primitives (the text of the value, by type), arrays, objects;
\* `undefined` is what reading a missing key gives
Prim(type, text) == [kind |-> "prim", type |-> type, v |-> text]
Arr(items) == [kind |-> "array", items |-> items]
Obj(members) == [kind |-> "object", members |-> members]
JsUndefined == [kind |-> "undefined"]
EmptyObject == Obj(<<>>)

IsNull(v) == v.kind = "prim" /\ v.type = "null"

\* a === b: primitives by value, objects and arrays by identity (two values
\* built apart are never the same object)
StrictEquals(a, b) ==
  \/ a.kind = "undefined" /\ b.kind = "undefined"
  \/ a.kind = "prim" /\ b.kind = "prim" /\ a = b

TypeOf(v) ==
  IF v.kind = "undefined" THEN "undefined"
  ELSE IF v.kind = "prim" /\ v.type # "null" THEN v.type
  ELSE "object"

\* Object.keys(v) of an array or an object
Keys(v) ==
  IF v.kind = "array" THEN {ToString(i - 1) : i \in 1..Len(v.items)}
  ELSE DOMAIN v.members

\* v[key] of an array or an object
Get(v, key) ==
  IF v.kind = "array"
  THEN IF key \in Keys(v)
       THEN v.items[CHOOSE i \in 1..Len(v.items) : ToString(i - 1) = key]
       ELSE JsUndefined
  ELSE IF key \in DOMAIN v.members THEN v.members[key] ELSE JsUndefined

RECURSIVE deepEqual(_, _)
deepEqual(a, b) ==
  IF StrictEquals(a, b) THEN TRUE
  ELSE IF IsNull(a) \/ IsNull(b) THEN FALSE
  ELSE IF TypeOf(a) # TypeOf(b) THEN FALSE
  ELSE IF a.kind = "array" /\ b.kind = "array"
  THEN /\ Len(a.items) = Len(b.items)
       /\ \A i \in 1..Len(a.items) : deepEqual(a.items[i], b.items[i])
  ELSE IF TypeOf(a) = "object" /\ TypeOf(b) = "object"
  THEN /\ Cardinality(Keys(a)) = Cardinality(Keys(b))
       /\ \A key \in Keys(a) : deepEqual(Get(a, key), Get(b, key))
  ELSE FALSE

\* matchArgs(actual, expected, mode).pass
matchArgs(actual, expected, mode) ==
  CASE mode = "exact" ->
         /\ Cardinality(Keys(actual)) = Cardinality(Keys(expected))
         /\ \A key \in Keys(expected) : deepEqual(Get(actual, key), Get(expected, key))
    [] mode = "subset" ->
         \A key \in Keys(expected) :
            /\ key \in Keys(actual)
            /\ deepEqual(Get(actual, key), Get(expected, key))
    [] mode = "contains" ->
         \A key \in Keys(expected) :
            /\ key \in Keys(actual)
            /\ LET actualVal == Get(actual, key)
                   expectedVal == Get(expected, key)
               IN IF TypeOf(actualVal) = "string" /\ TypeOf(expectedVal) = "string"
                  THEN Contains(actualVal.v, expectedVal.v)
                  ELSE deepEqual(actualVal, expectedVal)

NoArgs == [present |-> FALSE, value |-> EmptyObject]
Args(value) == [present |-> TRUE, value |-> value]

\* output.toolCalls.find((tc) => tc.name === toolName): its position, or 0
FindCall(list, toolName) ==
  LET found == {i \in 1..Len(list) : list[i].name = toolName}
  IN IF found = {} THEN 0 ELSE SetMin(found)

\* the grader toolArgsMatch(toolName, expectedArgs, mode) applied to an output
toolArgsMatch(toolName, expectedArgs, mode, toolCalls) ==
  LET graderName == <<"toolArgsMatch(", toolName, "|", mode, ")">>
      at == FindCall(toolCalls.list, toolName)
  IN IF ~toolCalls.present \/ Len(toolCalls.list) = 0
     THEN [pass |-> FALSE, score |-> Zero, reason |-> <<"No tool calls in output">>,
           graderName |-> graderName]
     ELSE IF at = 0
     THEN [pass |-> FALSE, score |-> Zero,
           reason |-> <<"Tool ", toolName, " was not called">>,
           graderName |-> graderName]
     ELSE LET call == toolCalls.list[at]
              actualArgs == IF call.args.present THEN call.args.value ELSE EmptyObject
              pass == matchArgs(actualArgs, expectedArgs, mode)
          IN [pass |-> pass, score |-> IF pass THEN One ELSE Zero,
              reason |-> IF pass THEN <<"Tool ", toolName, " args match (", mode, ")">>
                         ELSE <<"Tool ", toolName, " args mismatch (", mode, ")">>,
              graderName |-> graderName]

MaxItems == 1

Leaves == {Prim("number", <<"1">>), Prim("string", <<"a">>), Prim("null", <<>>)}

MemberKeys == {"0", "a"}

\* values one level deep: a leaf, an array of leaves, an object of leaves
NestedValues ==
  Leaves
    \cup {Arr(items) : items \in SeqsUpTo(Leaves, MaxItems)}
    \cup {Obj(members) : members \in UNION {[K -> Leaves] : K \in SUBSET MemberKeys}}

Queries == {Prim("string", <<"a">>), Prim("string", <<"a", "b">>)}

\* args objects { query?, tags? }
ArgsObjects ==
  {Obj(<<>>)}
    \cup {Obj([k \in {"query"} |-> q]) : q \in Queries}
    \cup {Obj([k \in {"tags"} |-> t]) : t \in NestedValues}
    \cup {Obj([k \in {"query", "tags"} |-> IF k = "query" THEN q ELSE t]) :
            q \in Queries, t \in NestedValues}

ArgsOutputs ==
  {NoToolCalls, ToolCalls(<<>>),
   ToolCalls(<<[name |-> "format", args |-> NoArgs]>>),
   ToolCalls(<<[name |-> "search", args |-> NoArgs]>>)}
    \cup {ToolCalls(<<[name |-> "search", args |-> Args(a)]>>) : a \in ArgsObjects}
    \cup {ToolCalls(<<[name |-> "format", args |-> Args(a)],
                      [name |-> "search", args |-> Args(a)],
                      [name |-> "search", args |-> NoArgs]>>) : a \in ArgsObjects}

ToolArgsMatchModes == {"exact", "subset", "contains"}

InitToolArgs == InitDirect("toolArgsMatch")

CallToolArgsMatch ==
  /\ pc = "toolArgsMatch"
  /\ direct = NoDirect
  /\ \E expected \in ArgsObjects, mode \in ToolArgsMatchModes, calls \in ArgsOutputs :
       direct' = [call |-> "toolArgsMatch", toolName |-> "search",
                  expected |-> expected, mode |-> mode, toolCalls |-> calls,
                  result |-> toolArgsMatch("search", expected, mode, calls)]
  /\ UNCHANGED directOthers

NextToolArgs == CallToolArgsMatch

SpecToolArgs == InitToolArgs /\ [][NextToolArgs]_vars

\* ---- computeConfigHash of two suites
\* a resolved suite with its target and with the inputs of its cases
ResolvedSuite(s, targetFn, query) ==
  [name |-> s.name, target |-> targetFn,
   cases |-> [i \in 1..Len(s.cases) |->
                [id |-> s.cases[i].id, category |-> s.cases[i].category,
                 input |-> query, expected |-> Undefined]],
   defaultGraders |-> s.defaultGraders, gates |-> s.gates]

Reverse(s) == [i \in 1..Len(s) |-> s[Len(s) + 1 - i]]

Variations == {"same", "target", "graders", "input", "expected", "category",
               "name", "order", "count", "gates", "gateKeys"}

\* a second suite, like `s` but for one aspect
Vary(s, aspect) ==
  CASE aspect = "same" -> s
    [] aspect = "target" -> [s EXCEPT !.target = "otherTarget"]
    [] aspect = "graders" ->
         [s EXCEPT !.defaultGraders =
            IF s.defaultGraders.present THEN NoGraders
            ELSE SomeGraders(<<MakeConfig(GraderName(1), Undefined, FALSE, NoRat)>>)]
    [] aspect = "input" ->
         [s EXCEPT !.cases = [i \in 1..Len(s.cases) |-> [s.cases[i] EXCEPT !.input = "world"]]]
    [] aspect = "expected" ->
         [s EXCEPT !.cases = [i \in 1..Len(s.cases) |-> [s.cases[i] EXCEPT !.expected = 1]]]
    [] aspect = "category" ->
         [s EXCEPT !.cases = [i \in 1..Len(s.cases) |->
                                [s.cases[i] EXCEPT !.category = "regression"]]]
    [] aspect = "name" -> [s EXCEPT !.name = "other"]
    [] aspect = "order" -> [s EXCEPT !.cases = Reverse(s.cases)]
    [] aspect = "count" ->
         [s EXCEPT !.cases = Append(s.cases, [id |-> "X01", category |-> NoCategory,
                                              input |-> "hello", expected |-> Undefined])]
    [] aspect = "gates" ->
         [s EXCEPT !.gates = IF s.gates.present THEN NoGates ELSE MakeGates(One, 0, 1)]
    [] aspect = "gateKeys" -> [s EXCEPT !.gates.keys = Reverse(@)]

InitConfigHash == InitDirect("configHash")

\* computeConfigHash of a suite and of a second suite
CallComputeConfigHash ==
  /\ pc = "configHash"
  /\ direct = NoDirect
  /\ \E s \in Suites, aspect \in Variations :
       LET a == ResolvedSuite(s, "target", "hello")
           b == Vary(a, aspect)
       IN direct' = [call |-> "computeConfigHash", a |-> a, b |-> b,
                     aspect |-> aspect,
                     hashA |-> computeConfigHash(a), hashB |-> computeConfigHash(b)]
  /\ UNCHANGED directOthers

NextConfigHash == CallComputeConfigHash

SpecConfigHash == InitConfigHash /\ [][NextConfigHash]_vars

\* ------------------------------------------------------------ file watcher
MaxChanges == 2      \* fs.watch callbacks observed
MaxListeners == 2    \* listeners registered with on("change", ...)
MaxClock == 3        \* clock ticks observed

\* every variable but `watcher`
watcherOthers == <<runnerVars, scoring, pipeline, compose, judge, gate, direct>>

\* strings are sequences of characters where the code looks into them
Slash == <<"/">>
Src == <<"s", "r", "c">>
Lib == <<"l", "i", "b">>
DEFAULT_IGNORE ==
  << <<"n", "o", "d", "e", "_", "m", "o", "d", "u", "l", "e", "s">>,
     <<".", "e", "v", "a", "l", "-", "r", "u", "n", "s">>,
     <<".", "g", "i", "t">>,
     <<"d", "i", "s", "t">>,
     <<".", "e", "v", "a", "l", "-", "c", "a", "c", "h", "e">> >>

\* String.prototype.includes
Includes(str, pattern) ==
  \E i \in 1..(Len(str) - Len(pattern) + 1) :
     SubSeq(str, i, i + Len(pattern) - 1) = pattern

\* ignorePatterns.some((pattern) => filePath.includes(pattern))
shouldIgnore(filePath, ignorePatterns) ==
  \E k \in 1..Len(ignorePatterns) : Includes(filePath, ignorePatterns[k])

\* what is observed of the watcher, in order: the fs.watch callbacks, the
\* runs of flush, the listener invocations and the calls of close()
LogEntry(kind, path, ignored, files, listener, at) ==
  [kind |-> kind, path |-> path, ignored |-> ignored, files |-> files,
   listener |-> listener, at |-> at]

NoTimer == [handle |-> "null", at |-> 0]

\* createFileWatcher(options): one fs.watch per directory, nothing pending,
\* no listener, no timer
createFileWatcher(paths, ignore, debounceMs) ==
  [state |-> "open", paths |-> paths,
   ignorePatterns |-> IF ignore.present THEN ignore.list ELSE DEFAULT_IGNORE,
   debounceMs |-> debounceMs, listeners |-> <<>>, pendingFiles |-> <<>>,
   debounceTimer |-> NoTimer, clock |-> 0, changes |-> 0, log |-> <<>>]

\* close(): a timer that was ever set is cleared, every fs watcher is closed
close(w) ==
  [w EXCEPT !.debounceTimer =
              IF @.handle = "armed" THEN [@ EXCEPT !.handle = "cleared"] ELSE @,
            !.state = "closed",
            !.log = Append(@, LogEntry("close", <<>>, FALSE, <<>>, 0, w.clock))]

\* for (const listener of listeners) listener(files), from the i-th on; a
\* listener of kind "closes" calls close() on the watcher when it is invoked
RECURSIVE InvokeListeners(_, _, _)
InvokeListeners(w, i, files) ==
  IF i > Len(w.listeners)
  THEN w
  ELSE LET invoked == [w EXCEPT !.log =
                         Append(@, LogEntry("deliver", <<>>, FALSE, files, i, w.clock))]
       IN InvokeListeners(IF w.listeners[i] = "closes" THEN close(invoked) ELSE invoked,
                          i + 1, files)

\* flush: the pending files are copied, the set is emptied, every listener
\* is invoked with the copy (the flush entry notes how many are registered)
flush(w) ==
  InvokeListeners(
    [w EXCEPT !.pendingFiles = <<>>,
              !.log = Append(@, LogEntry("flush", <<>>, FALSE, w.pendingFiles,
                                          Len(w.listeners), w.clock))],
    1, w.pendingFiles)

\* Set.prototype.add: insertion order, no second copy
SetAdd(set, x) == IF x \in Range(set) THEN set ELSE Append(set, x)

\* mutant: a change during a pending debounce leaves the timer as it is
handleChange_NoRestart(w, dir, filename) ==
  LET fullPath == dir \o Slash \o filename
      seen == [w EXCEPT !.changes = @ + 1]
  IN
  IF filename = <<>>
  THEN [seen EXCEPT !.log = Append(@, LogEntry("change", <<>>, FALSE, <<>>, 0, w.clock))]
  ELSE IF shouldIgnore(fullPath, w.ignorePatterns)
  THEN [seen EXCEPT !.log = Append(@, LogEntry("change", fullPath, TRUE, <<>>, 0, w.clock))]
  ELSE [seen EXCEPT !.pendingFiles = SetAdd(@, fullPath),
                    !.debounceTimer = IF @.handle = "armed" THEN @
                                      ELSE [handle |-> "armed", at |-> w.clock],
                    !.log = Append(@, LogEntry("change", fullPath, FALSE, <<>>, 0, w.clock))]

\* the callback given to fs.watch(dir): no filename (<<>>): nothing; an
\* ignored path: nothing; otherwise the path is added and the debounce timer
\* is cleared and set again
handleChange(w, dir, filename) ==
  LET fullPath == dir \o Slash \o filename
      seen == [w EXCEPT !.changes = @ + 1]
  IN
  IF filename = <<>>
  THEN [seen EXCEPT !.log = Append(@, LogEntry("change", <<>>, FALSE, <<>>, 0, w.clock))]
  ELSE IF shouldIgnore(fullPath, w.ignorePatterns)
  THEN [seen EXCEPT !.log = Append(@, LogEntry("change", fullPath, TRUE, <<>>, 0, w.clock))]
  ELSE [seen EXCEPT !.pendingFiles = SetAdd(@, fullPath),
                    !.debounceTimer = [handle |-> "armed", at |-> w.clock],
                    !.log = Append(@, LogEntry("change", fullPath, FALSE, <<>>, 0, w.clock))]

\* options of the watchers observed
WatchedPaths == {<<Src>>, <<Src, Lib>>}
IgnoreOptions == {NoGraders, [present |-> TRUE, list |-> <<<<"b">>>>]}
DebounceChoices == {1, 2}
Filenames == {<<>>, <<"a">>, <<"b">>, <<"d", "i", "s", "t", "/", "a">>}
ListenerKinds == {"plain", "closes"}

InitWatcher ==
  /\ DirectCall("watcher")
  /\ scoring = NoScoring
  /\ pipeline = NoPipeline
  /\ compose = NoCompose
  /\ judge = NoJudge
  /\ gate = NoGate
  /\ direct = NoDirect
  /\ watcher \in {createFileWatcher(p, i, d) :
                    p \in WatchedPaths, i \in IgnoreOptions, d \in DebounceChoices}

\* on("change", callback)
On(kind) ==
  /\ Len(watcher.listeners) < MaxListeners
  /\ watcher' = [watcher EXCEPT !.listeners = Append(@, kind)]
  /\ UNCHANGED watcherOthers

\* an open fs watcher calls back
Change(dir, filename) ==
  /\ watcher.state = "open"
  /\ watcher.changes < MaxChanges
  /\ watcher' = handleChange(watcher, dir, filename)
  /\ UNCHANGED watcherOthers

\* time passes
WatcherTick ==
  /\ watcher.clock < MaxClock
  /\ watcher' = [watcher EXCEPT !.clock = @ + 1]
  /\ UNCHANGED watcherOthers

\* the debounce timer fires, debounceMs or more after it was set: flush
DebounceFires ==
  /\ watcher.debounceTimer.handle = "armed"
  /\ watcher.clock - watcher.debounceTimer.at >= watcher.debounceMs
  /\ watcher' = flush([watcher EXCEPT !.debounceTimer.handle = "fired"])
  /\ UNCHANGED watcherOthers

\* close() is called from outside a listener
Close ==
  /\ watcher.state = "open"
  /\ watcher' = close(watcher)
  /\ UNCHANGED watcherOthers

NextWatcher ==
  \/ \E kind \in ListenerKinds : On(kind)
  \/ \E k \in 1..Len(watcher.paths), filename \in Filenames :
        Change(watcher.paths[k], filename)
  \/ WatcherTick
  \/ DebounceFires
  \/ Close

SpecWatcher == InitWatcher /\ [][NextWatcher]_vars

\* ============================================================== claims
\* The scoring rules of the specification, stated without the loops of
\* computeCaseResult: sums over the grader positions, in quarters.
RECURSIVE SumSeq(_)
SumSeq(s) == IF Len(s) = 0 THEN 0 ELSE s[1] + SumSeq(Tail(s))

Quarters(r) == (4 * r.num) \div r.den

RuleWeights(configs) ==
  [i \in 1..Len(configs) |->
     IF configs[i].weight = Undefined THEN 1 ELSE configs[i].weight]

RuleRequiredFailed(gs, cs) ==
  \E i \in 1..Len(gs) : cs[i].required /\ ~gs[i].pass

RuleScore(gs, cs) ==
  LET w == RuleWeights(cs)
      total == SumSeq(w)
      sum == SumSeq([i \in 1..Len(gs) |-> Quarters(gs[i].score) * w[i]])
  IN  IF Len(gs) = 0 \/ total = 0 THEN One ELSE Q(sum, 4 * total)

RuleThreshold(cs) ==
  LET set == {cs[i].threshold : i \in 1..Len(cs)} \ {NoRat}
  IN  IF set = {} THEN Q(1, 2)
      ELSE CHOOSE t \in set : \A u \in set : RatLeq(t, u)

RulePass(gs, cs) ==
  ~RuleRequiredFailed(gs, cs) /\ RatGeq(RuleScore(gs, cs), RuleThreshold(cs))

\* names of the graders at the positions in S, in list order
NamesWhere(gs, S) ==
  LET F[i \in 0..Len(gs)] ==
        IF i = 0 THEN <<>>
        ELSE IF i \in S THEN Append(F[i - 1], gs[i].graderName) ELSE F[i - 1]
  IN  F[Len(gs)]

CountRec(ts, status) ==
  LET F[i \in 0..Len(ts)] ==
        IF i = 0 THEN 0 ELSE F[i - 1] + (IF ts[i].status = status THEN 1 ELSE 0)
  IN  F[Len(ts)]

CaseIds == [i \in 1..Len(suite.cases) |-> suite.cases[i].id]

\* how the target invocation of a finished case ended
TimedOut(i) == timer[i] = "fired"
Threw(i) == timer[i] = "cleared" /\ target[i] = "threw"
Returned(i) == timer[i] = "cleared" /\ target[i] = "returned"

\* C1: runSuite invokes the target once per case in declaration order, and
\* the trials (of the loop and of the returned Run) are one per case in that
\* same order, whatever the target did for the other cases.
C1_SequentialOrder ==
  options.mode = "live" =>
    /\ order = SubSeq(CaseIds, 1, Len(order))
    /\ Len(trials) <= Len(order)
    /\ Len(order) <= Len(trials) + 1
    /\ \A i \in 1..Len(trials) : trials[i].caseId = suite.cases[i].id
    /\ pc = "done" =>
         /\ order = CaseIds
         /\ Len(run.trials) = Len(suite.cases)
         /\ \A i \in 1..Len(run.trials) : run.trials[i].caseId = suite.cases[i].id

C1_Witness ==
  /\ pc = "done"
  /\ Len(run.trials) >= 2
  /\ run.trials[1].status = "error"
  /\ run.trials[2].status = "pass"
  /\ order = CaseIds

\* C2 (as claimed): at most one target invocation is in flight at any time.
C2_AtMostOneInFlight ==
  Cardinality({i \in DOMAIN target : target[i] = "running"}) <= 1

\* C3: a finished case is either a timeout (the timer fired while the target
\* was unsettled: error trial carrying 'Timeout after <timeoutMs>ms') or is
\* decided by the target's own settlement, never both; a settlement that
\* arrives after the timer fired leaves the timeout trial as it is.
C3_TimeoutOrResult ==
  options.mode = "live" =>
    \A i \in 1..Len(trials) :
      /\ timer[i] \in {"fired", "cleared"}
      /\ TimedOut(i) =>
           /\ trials[i].status = "error"
           /\ Contains(trials[i].output.text,
                       <<"Timeout after ", ToString(options.timeoutMs), "ms">>)
      /\ Threw(i) =>
           /\ trials[i].status = "error"
           /\ \E m \in TargetErrors : Contains(trials[i].output.text, m)
           /\ ~Contains(trials[i].output.text, <<"Timeout after ">>)
      /\ Returned(i) =>
           /\ trials[i].status \in {"pass", "fail"}
           /\ trials[i].output \in TargetOutputs

C3_Witness ==
  /\ options.mode = "live"
  /\ \E i \in 1..Len(trials) : TimedOut(i) /\ target[i] = "returned"
  /\ \E j \in 1..Len(trials) : Returned(j)

\* C4: a case whose target threw or timed out yields a trial with status
\* error, no grades, score 0, output.text carrying the error message and
\* output.latencyMs = durationMs, and no grader is invoked for that case.
C4_ErrorTrialShape ==
  options.mode = "live" =>
    \A i \in 1..Len(trials) :
      (TimedOut(i) \/ Threw(i)) =>
        LET t == trials[i] IN
        /\ t.status = "error"
        /\ t.grades = <<>>
        /\ t.score = Zero
        /\ t.output.text[1] = "Target error: "
        /\ \E m \in TargetErrors \cup {TimeoutMessage(options.timeoutMs)} :
              t.output.text = <<"Target error: ">> \o m
        /\ t.output.latencyMs = t.durationMs
        /\ \A k \in 1..Len(graderCalls) : graderCalls[k][1] # t.caseId

C4_Witness ==
  /\ options.mode = "live"
  /\ Len(trials) >= 2
  /\ Threw(1)
  /\ trials[1].durationMs > 0
  /\ Returned(2)
  /\ Len(graderCalls) > 0

\* C5: in every Run, totalCases = passed + failed + errors = trials.length,
\* the three being the numbers of trials with status pass, fail and error.
C5_SummaryCounts ==
  pc = "done" =>
    LET sm == run.summary IN
    /\ sm.totalCases = sm.passed + sm.failed + sm.errors
    /\ sm.totalCases = Len(run.trials)
    /\ sm.passed = CountRec(run.trials, "pass")
    /\ sm.failed = CountRec(run.trials, "fail")
    /\ sm.errors = CountRec(run.trials, "error")

C5_Witness ==
  /\ pc = "done"
  /\ run.summary.errors = 1
  /\ run.summary.failed = 1
  /\ run.summary.totalCases = 2

Scored == scoring.call # "none"

\* C7: if a required grader failed, computeCaseResult returns pass = false
\* and score = 0 whatever the weights, thresholds and scores are.
C7_RequiredFailureZero ==
  (Scored /\ RuleRequiredFailed(scoring.grades, scoring.configs)) =>
    /\ scoring.result.pass = FALSE
    /\ scoring.result.score = Zero

C7_Witness ==
  /\ Scored
  /\ scoring.call = "computeCaseResult"
  /\ Len(scoring.grades) = 2
  /\ scoring.configs[1].required /\ ~scoring.grades[1].pass
  /\ scoring.grades[1].score = One
  /\ scoring.configs[2].weight = 3 /\ scoring.grades[2].score = One
  /\ scoring.caseThreshold = Q(1, 4)

\* C8 (as claimed): failedGraders lists every grader whose grade has
\* pass = false, also when a required grader failed.
C8_EveryFailedListed ==
  Scored =>
    \A i \in 1..Len(scoring.grades) :
      ~scoring.grades[i].pass =>
        scoring.grades[i].graderName \in Range(scoring.result.failedGraders)

\* C8 (amended): when no required grader failed, failedGraders lists, in
\* order, every grader whose grade has pass = false; when a required grader
\* failed, it lists, in order, exactly the required graders that failed.
C8_FailedGradersByPath ==
  Scored =>
    LET gs == scoring.grades
        cs == scoring.configs
        failing == {i \in 1..Len(gs) : ~gs[i].pass}
        failingRequired == {i \in failing : cs[i].required}
    IN  scoring.result.failedGraders =
          IF failingRequired # {} THEN NamesWhere(gs, failingRequired)
          ELSE NamesWhere(gs, failing)

C8_Witness ==
  /\ Scored
  /\ Len(scoring.grades) = 2
  /\ scoring.configs[1].required /\ ~scoring.grades[1].pass
  /\ ~scoring.configs[2].required /\ ~scoring.grades[2].pass
  /\ scoring.result.failedGraders = <<scoring.grades[1].graderName>>

\* C9: when no required grader failed, score = (sum of score x weight) /
\* (sum of weights), weight defaulting to 1, and score = 1 for an empty grade
\* list or a total weight of 0.
C9_WeightedAverage ==
  (Scored /\ ~RuleRequiredFailed(scoring.grades, scoring.configs)) =>
    scoring.result.score = RuleScore(scoring.grades, scoring.configs)

C9_Witness ==
  /\ Scored
  /\ Len(scoring.grades) = 2
  /\ scoring.configs[1].weight = 3 /\ scoring.grades[1].score = One
  /\ scoring.configs[2].weight = Undefined /\ scoring.grades[2].score = Zero
  /\ scoring.result.score = Q(3, 4)

\* C10: when no required grader failed, the pipeline passes the case exactly
\* when score >= caseThreshold (a tie passes), caseThreshold being the
\* minimum of the thresholds set on the configs, 0.5 when none is set.
C10_ThresholdInclusive ==
  (Scored /\ scoring.call = "pipeline"
     /\ ~RuleRequiredFailed(scoring.grades, scoring.configs)) =>
    /\ scoring.caseThreshold = RuleThreshold(scoring.configs)
    /\ scoring.result.pass <=>
         RatGeq(scoring.result.score, RuleThreshold(scoring.configs))

C10_Witness ==
  /\ Scored
  /\ scoring.call = "pipeline"
  /\ Len(scoring.configs) = 2
  /\ scoring.configs[1].threshold = One
  /\ scoring.configs[2].threshold = Q(1, 4)
  /\ scoring.result.score = Q(1, 4)
  /\ scoring.result.pass

\* C11: a grader that throws inside the pipeline never aborts the execution:
\* neither runSuite nor runJudgeOnly ends rejected, the failure being kept as
\* a grade with pass = false.
C11_GraderThrowSurfaced == pc # "rejected"

\* names of the graders of a grader list argument, in list order
GraderNames(graders) == [i \in 1..Len(graders.list) |-> graders.list[i].grader]

\* the graders in effect for a call: the case graders when given and not
\* empty, the suite defaults otherwise
RuleInEffect(caseGraders, suiteGraders) ==
  IF caseGraders.present /\ caseGraders.list # <<>>
  THEN GraderNames(caseGraders)
  ELSE GraderNames(suiteGraders)

PipelineCalled == pipeline.call = "runGraderPipeline"
PipelineReturned == PipelineCalled /\ pipeline.state = "returned"

\* C12: runGraderPipeline invokes the graders in effect in list order, one
\* at a time (a grader is invoked only once every earlier one has resolved),
\* each once, and returns one grade per grader in effect, grades[i] being
\* the grade the i-th grader gave.
C12_GradersInOrder ==
  PipelineCalled =>
    LET inEffect == RuleInEffect(pipeline.caseGraders, pipeline.suiteGraders)
    IN /\ Len(pipeline.calls) <= Len(inEffect)
       /\ \A k \in 1..Len(pipeline.calls) : pipeline.calls[k] = inEffect[k]
       /\ Len(pipeline.calls) - Len(pipeline.grades) \in {0, 1}
       /\ pipeline.state = "awaitGrader" =>
            Len(pipeline.calls) = Len(pipeline.grades) + 1
       /\ pipeline.state = "returned" =>
            /\ pipeline.calls = inEffect
            /\ Len(pipeline.result.grades) = Len(inEffect)
            /\ \A i \in 1..Len(inEffect) :
                 /\ pipeline.result.grades[i] = pipeline.grades[i]
                 /\ pipeline.result.grades[i].graderName = inEffect[i]

C12_Witness ==
  /\ PipelineReturned
  /\ pipeline.calls = <<"c1", "c2">>
  /\ Len(pipeline.result.grades) = 2
  /\ ~pipeline.result.grades[1].pass
  /\ pipeline.result.grades[2].pass

\* C13: case graders that are given and not empty are the only graders run,
\* no suite default being invoked; otherwise exactly the suite defaults are
\* run, none when the suite has no defaults.
C13_CaseGradersReplace ==
  PipelineCalled =>
    LET caseNames == GraderNames(pipeline.caseGraders)
        suiteNames == GraderNames(pipeline.suiteGraders)
        replaced == pipeline.caseGraders.present /\ Len(caseNames) > 0
    IN /\ replaced =>
            /\ \A k \in 1..Len(pipeline.calls) :
                 /\ pipeline.calls[k] \in Range(caseNames)
                 /\ pipeline.calls[k] \notin Range(suiteNames)
            /\ pipeline.state = "returned" => pipeline.calls = caseNames
       /\ ~replaced =>
            /\ \A k \in 1..Len(pipeline.calls) :
                 pipeline.calls[k] \in Range(suiteNames)
            /\ pipeline.state = "returned" => pipeline.calls = suiteNames

C13_Witness ==
  /\ PipelineReturned
  /\ Len(pipeline.caseGraders.list) = 1
  /\ Len(pipeline.suiteGraders.list) = 2
  /\ pipeline.suiteGraders.list[1].required
  /\ pipeline.calls = <<"c1">>
  /\ pipeline.result.caseResult.pass

\* C16: runJudgeOnly never invokes the target, and the i-th trial it emits
\* carries the i-th stored trial's caseId, output, durationMs and trialIndex
\* unchanged: only grades, score and status may differ.
C16_JudgeOnlyPreserves ==
  options.mode = "judge-only" =>
    /\ order = <<>>
    /\ \A i \in 1..Len(target) : target[i] = "idle"
    /\ Len(regraded) <= Len(previousRun.trials)
    /\ \A i \in 1..Len(regraded) :
         /\ regraded[i].caseId = previousRun.trials[i].caseId
         /\ regraded[i].output = previousRun.trials[i].output
         /\ regraded[i].durationMs = previousRun.trials[i].durationMs
         /\ regraded[i].trialIndex = previousRun.trials[i].trialIndex
         /\ DOMAIN regraded[i] = DOMAIN previousRun.trials[i]

C16_Witness ==
  /\ pc = "joDone"
  /\ Len(suite.cases) > 0
  /\ Len(regraded) = 2
  /\ previousRun.trials[1].status = "pass" /\ regraded[1].status = "fail"
  /\ regraded[1].durationMs = 1 /\ regraded[1].trialIndex = 0
  /\ regraded[1].grades[1].graderName = "g1"
  /\ regraded[2].durationMs = 2

\* the gates a gate config sets, in the order they are checked
ConfiguredGates(g) ==
  (IF g.present /\ g.passRate # NoRat THEN <<"passRate">> ELSE <<>>)
  \o (IF g.present /\ g.maxCost # Undefined THEN <<"maxCost">> ELSE <<>>)
  \o (IF g.present /\ g.p95LatencyMs # Undefined THEN <<"p95LatencyMs">> ELSE <<>>)

\* whether the summary meets the named gate, a value at the limit meeting it
RuleGateMet(name, s, g) ==
  IF name = "passRate"
  THEN s.passRate.num * g.passRate.den >= g.passRate.num * s.passRate.den
  ELSE IF name = "maxCost" THEN ~(s.totalCost > g.maxCost)
  ELSE ~(s.p95LatencyMs > g.p95LatencyMs)

\* C20: evaluateGates returns one check per configured gate, passRate met
\* iff summary.passRate >= threshold, maxCost iff totalCost <= threshold,
\* p95LatencyMs iff summary.p95LatencyMs <= threshold; the overall pass is
\* the conjunction of the checks; with no gate configured the result is
\* pass = true with no checks.
C20_GateChecks ==
  gate.call = "evaluateGates" =>
    LET names == ConfiguredGates(gate.gates)
        r == gate.result
    IN /\ Len(r.results) = Len(names)
       /\ \A i \in 1..Len(names) :
            /\ r.results[i].gate = names[i]
            /\ r.results[i].pass <=> RuleGateMet(names[i], gate.summary, gate.gates)
       /\ r.pass <=> \A i \in 1..Len(r.results) : r.results[i].pass
       /\ names = <<>> => (r.pass /\ r.results = <<>>)

C20_Witness ==
  /\ gate.call = "evaluateGates"
  /\ gate.gates = MakeGates(Half, 1, 2)
  /\ gate.summary = [passRate |-> Half, totalCost |-> 1, p95LatencyMs |-> 2]
  /\ Len(gate.result.results) = 3
  /\ gate.result.pass

ComposeReturned == compose.call # "none" /\ compose.state = "returned"

\* C17: all(gs) returns pass = the conjunction of the children's pass and
\* score = the least of the children's scores, all([]) being (true, 1);
\* any(gs) returns pass = the disjunction and score = the greatest of the
\* children's scores, any([]) being (false, 0).
C17_AllAnyAlgebra ==
  (ComposeReturned /\ compose.call \in {"all", "any"}) =>
    LET rs == compose.results
        r == compose.result
        n == Len(compose.children)
    IN /\ Len(rs) = n
       /\ compose.call = "all" =>
            /\ r.pass <=> \A i \in 1..n : rs[i].pass
            /\ n = 0 => r.score = DblOne
            /\ n > 0 => /\ \E i \in 1..n : r.score = rs[i].score
                        /\ \A i \in 1..n : DblLeq(r.score, rs[i].score)
       /\ compose.call = "any" =>
            /\ r.pass <=> \E i \in 1..n : rs[i].pass
            /\ n = 0 => r.score = DblZero
            /\ n > 0 => /\ \E i \in 1..n : r.score = rs[i].score
                        /\ \A i \in 1..n : DblLeq(rs[i].score, r.score)

C17_Witness ==
  /\ ComposeReturned
  /\ compose.call = "any"
  /\ Len(compose.results) = 2
  /\ compose.results[1].pass /\ compose.results[1].score = DoubleOf(1, 10)
  /\ ~compose.results[2].pass /\ compose.results[2].score = DoubleOf(7, 10)
  /\ compose.result.pass
  /\ compose.result.score = DoubleOf(7, 10)

\* not(not(g)), and the grade g itself gave
DoubleNegated ==
  ComposeReturned /\ compose.call = "not" /\ compose.children = <<"not">>

\* C18 as stated: not(not(g)) returns the same pass and the same score as g.
C18_DoubleNegation ==
  DoubleNegated =>
    /\ compose.result.pass = compose.leafResults[1].pass
    /\ compose.result.score = compose.leafResults[1].score

\* a + b = 1 exactly, on doubles of [0, 1]
SumsToOne(a, b) ==
  \/ a = DblOne /\ b = DblZero
  \/ a = DblZero /\ b = DblOne
  \/ /\ ~a.one /\ ~b.one
     /\ Len(a.frac) > 0
     /\ Len(a.frac) = Len(b.frac)
     /\ \A i \in 1..Len(a.frac) :
          a.frac[i] + b.frac[i] = (IF i = Len(a.frac) THEN 2 ELSE 1)

\* the score is a multiple of 2^-SigBits, so that 1 - score is a double
ExactComplement(s) == Len(s.frac) <= SigBits

\* C18, amended: not(g) returns the negated pass and the double nearest to
\* 1 - g's score; not(not(g)) returns the same pass as g, the same score as
\* g when g's score is a multiple of 2^-53, and otherwise a score whose
\* complement 1 - score is the same double as that of g's score.
C18_DoubleNegationRounded ==
  (ComposeReturned /\ compose.call = "not") =>
    LET g == compose.leafResults[1]
        r == compose.result
    IN /\ compose.children = <<"leaf">> =>
            /\ r.pass = ~g.pass
            /\ ExactComplement(g.score) => SumsToOne(r.score, g.score)
       /\ compose.children = <<"not">> =>
            /\ r.pass = g.pass
            /\ ExactComplement(g.score) => r.score = g.score
            /\ OneMinus(r.score) = OneMinus(g.score)

C18_Witness ==
  /\ DoubleNegated
  /\ compose.leafResults[1].pass
  /\ compose.leafResults[1].score = DoubleOf(1, 4)
  /\ compose.results[1].score = DoubleOf(3, 4)
  /\ compose.result.pass
  /\ compose.result.score = DoubleOf(1, 4)

\* C19: all and any do not short-circuit: the children are invoked one at a
\* time in declaration order, and by the time the composite returns every
\* child has been invoked exactly once, whatever the earlier children gave.
C19_NoShortCircuit ==
  (compose.call \in {"all", "any"}) =>
    LET n == Len(compose.children)
    IN /\ Len(compose.calls) <= n
       /\ \A k \in 1..Len(compose.calls) : compose.calls[k] = GraderName(k)
       /\ Len(compose.calls) - Len(compose.results) \in {0, 1}
       /\ compose.state = "awaitChild" =>
            Len(compose.calls) = Len(compose.results) + 1
       /\ compose.state = "returned" => Len(compose.calls) = n

C19_Witness ==
  /\ ComposeReturned
  /\ compose.call = "all"
  /\ Len(compose.results) = 2
  /\ ~compose.results[1].pass
  /\ compose.calls = <<"g1", "g2">>
  /\ compose.results[2].pass
  /\ ~compose.result.pass

RubricReturned == judge.call = "llmRubric" /\ judge.state = "returned"

\* C14: an LLM-judge grade is never a silent pass: with no judge configured,
\* with a judge call that throws, or with a judge text parseJudgeResponse
\* cannot parse (the empty text and 'Score: 10' among them), the grade has
\* pass = false and score = 0 and its reason names the failure.
C14_NeverSilentPass ==
  RubricReturned =>
    LET noJudge == judge.optsJudge = "none" /\ judge.contextJudge = "none"
        threw == judge.outcome = "threw"
        unparsed == judge.outcome = "returned"
                      /\ ~parseJudgeResponse(judge.text).success
    IN /\ (noJudge \/ threw \/ unparsed) =>
            (~judge.grade.pass /\ judge.grade.score = Zero)
       /\ noJudge => Contains(judge.grade.reason, <<"No judge configured">>)
       /\ threw => /\ Contains(judge.grade.reason, <<"Judge call failed">>)
                   /\ Contains(judge.grade.reason, judge.message)
       /\ unparsed => Contains(judge.grade.reason, <<"unparseable">>)
       /\ (judge.outcome = "returned" /\ judge.text \in {EmptyText, ScoreTen}) =>
            (unparsed /\ ~judge.grade.pass /\ judge.grade.score = Zero)

C14_Witness ==
  /\ RubricReturned
  /\ judge.outcome = "returned"
  /\ judge.text = ScoreTen
  /\ ~judge.grade.pass
  /\ judge.grade.score = Zero
  /\ Contains(judge.grade.reason, <<"unparseable">>)

ParseReturned == judge.call = "parseJudgeResponse"

\* the scores a text writes down: the number of a score member, a digit
WrittenScores(text) ==
  {text[i].v.num : i \in {j \in 1..Len(text) :
      /\ text[j].t = "pair"
      /\ text[j].key \in {"score", "rating", "total_rating"}
      /\ text[j].v.type = "number"}}
  \cup {Q(DigitValue(text[i].s), 1) : i \in {j \in 1..Len(text) : text[j].t = "digit"}}

\* C15: whichever layer produces it, a successful parse carries a score that
\* is one of the integers 1, 2, 3, 4 (and that the text writes down); every
\* other text yields success = false with an error and no score.
C15_ScoreInRange ==
  ParseReturned =>
    LET r == judge.result
    IN /\ r.success =>
            /\ r.layer \in 1..3
            /\ r.parsed.score \in {Q(k, 1) : k \in 1..4}
            /\ r.parsed.score \in WrittenScores(judge.text)
       /\ ~r.success =>
            /\ r.parsed.score = NoRat
            /\ Len(r.error) > 0
       /\ (WrittenScores(judge.text) \cap {Q(k, 1) : k \in 1..4} = {}) => ~r.success

C15_Witness ==
  /\ ParseReturned
  /\ judge.text = <<Word("good"), Newline, Word("SCORE"), Colon, Space, Digit(4), Word("stars")>>
  /\ judge.result.success
  /\ judge.result.layer = 3
  /\ judge.result.parsed.score = Q(4, 1)

\* the categories the cases of the suite carry
Categories == {suite.cases[i].category : i \in 1..Len(suite.cases)} \ {NoCategory}

\* the trials of the Run whose case carries category c
TrialsOf(c) ==
  {i \in 1..Len(run.trials) :
     \E k \in 1..Len(suite.cases) :
        suite.cases[k].id = run.trials[i].caseId /\ suite.cases[k].category = c}

StatusCount(c, status) == Cardinality({i \in TrialsOf(c) : run.trials[i].status = status})

\* C21: in a Run of runSuite over a suite in which a case carries a category,
\* summary.byCategory is present and holds total, passed, failed, errors and
\* passRate of each carried category over that category's trials; when no
\* case carries a category, byCategory is absent.
C21_ByCategory ==
  (pc = "done" /\ options.mode = "live") =>
    LET by == run.summary.byCategory
    IN IF Categories = {} THEN ~by.present
       ELSE /\ by.present
            /\ DOMAIN by.value = Categories
            /\ \A c \in Categories :
                 /\ by.value[c].total = Cardinality(TrialsOf(c))
                 /\ by.value[c].passed = StatusCount(c, "pass")
                 /\ by.value[c].failed = StatusCount(c, "fail")
                 /\ by.value[c].errors = StatusCount(c, "error")
                 /\ by.value[c].passRate = Q(StatusCount(c, "pass"), Cardinality(TrialsOf(c)))

SummaryReturned == direct.call = "computePartialSummary"

LatencyOf(i) == direct.trials[i].output.latencyMs

\* the 1-based rank ceil(0.95 n), at least 1: the least c with 100 c >= 95 n
Rank95(n) ==
  LET c == CHOOSE c \in 0..n : 100 * c >= 95 * n /\ (c = 0 \/ 100 * (c - 1) < 95 * n)
  IN IF c < 1 THEN 1 ELSE c

\* C22: summary.p95LatencyMs is the element at index ceil(0.95 n) - 1 (clamped
\* to [0, n-1]) of the ascending list of output.latencyMs over all n trials,
\* error trials included with their synthesized latency, and 0 when n = 0:
\* it is a latency of the Run with fewer than ceil(0.95 n) latencies below
\* it and at least that many not above it.
C22_P95Latency ==
  SummaryReturned =>
    LET n == Len(direct.trials)
        p == direct.summary.p95LatencyMs
    IN IF n = 0 THEN p = 0
       ELSE /\ \E i \in 1..n : LatencyOf(i) = p
            /\ Cardinality({i \in 1..n : LatencyOf(i) < p}) < Rank95(n)
            /\ Cardinality({i \in 1..n : LatencyOf(i) <= p}) >= Rank95(n)

\* twenty trials, the largest latency that of an error trial: the percentile
\* is the nineteenth latency, not the largest
C22_Witness ==
  /\ SummaryReturned
  /\ Len(direct.trials) = 20
  /\ \E i \in 1..20 :
       /\ direct.trials[i].status = "error"
       /\ \A j \in 1..20 : LatencyOf(j) <= LatencyOf(i)
       /\ direct.summary.p95LatencyMs < LatencyOf(i)
  /\ Cardinality({i \in 1..20 : LatencyOf(i) < direct.summary.p95LatencyMs}) = 18

CompareReturned == direct.call = "compareRuns"

InBoth == RunCaseIds(direct.base) \cap RunCaseIds(direct.compare)

ThresholdInEffect ==
  IF direct.scoreThreshold = NoRat THEN Q(1, 20) ELSE direct.scoreThreshold

\* compare.score - base.score of a case of both runs, times 4 (the scores
\* are multiples of 1/4)
QuartersDelta(id) ==
  LET b == TrialOf(direct.base, id).score
      c == TrialOf(direct.compare, id).score
  IN (4 * c.num) \div c.den - (4 * b.num) \div b.den

\* the threshold in effect is at least / exactly k quarters
ThresholdBelowQuarters(k) == ThresholdInEffect.num * 4 < k * ThresholdInEffect.den

\* C23: compareRuns gives every case of both runs exactly one direction:
\* regression from pass to fail or error, improvement from fail or error to
\* pass, and for an unchanged status unchanged when the score delta is
\* within the threshold (0.05 by default, the boundary included), regression
\* when it is below -threshold and improvement when it is above +threshold.
C23_CaseDirection ==
  CompareReturned =>
    LET r == direct.result IN
    /\ \A id \in InBoth :
         LET b == TrialOf(direct.base, id)
             c == TrialOf(direct.compare, id)
             d == r.cases[id].direction
             q == QuartersDelta(id)
             mag == IF q < 0 THEN 0 - q ELSE q
         IN /\ d \in {"regression", "improvement", "unchanged"}
            /\ (b.status = "pass" /\ c.status \in {"fail", "error"}) => d = "regression"
            /\ (b.status \in {"fail", "error"} /\ c.status = "pass") => d = "improvement"
            /\ b.status = c.status =>
                 /\ ~ThresholdBelowQuarters(mag) => d = "unchanged"
                 /\ (ThresholdBelowQuarters(mag) /\ q < 0) => d = "regression"
                 /\ (ThresholdBelowQuarters(mag) /\ q > 0) => d = "improvement"
    /\ r.summary.regressions + r.summary.improvements + r.summary.unchanged
         = Cardinality(InBoth)

\* a delta of exactly the threshold is unchanged, next to a regression by
\* status
C23_Witness ==
  /\ CompareReturned
  /\ direct.scoreThreshold = Q(1, 4)
  /\ InBoth = {"C01", "C02"}
  /\ TrialOf(direct.base, "C01").status = "fail"
  /\ TrialOf(direct.compare, "C01").status = "fail"
  /\ QuartersDelta("C01") = -1
  /\ direct.result.cases["C01"].direction = "unchanged"
  /\ TrialOf(direct.base, "C02").status = "pass"
  /\ TrialOf(direct.compare, "C02").status = "error"
  /\ direct.result.cases["C02"].direction = "regression"

ToolSequenceReturned == direct.call = "toolSequence"

\* the ordered list of actual tool-call names; empty without toolCalls
ActualNames ==
  [i \in 1..Len(direct.toolCalls.list) |-> direct.toolCalls.list[i].name]

Occurrences(names, name) == Cardinality({i \in 1..Len(names) : names[i] = name})

ModeRelation(mode, actual, expected) ==
  CASE mode = "strict" -> actual = expected
    [] mode = "unordered" ->
         \A name \in ToolNames : Occurrences(actual, name) = Occurrences(expected, name)
    [] mode = "subset" -> Range(expected) \subseteq Range(actual)
    [] mode = "superset" -> Range(actual) \subseteq Range(expected)

\* C24: for every expected name list and every output, outputs without tool
\* calls and empty expected lists included, toolSequence passes exactly when
\* the relation of its mode holds between the actual and the expected names:
\* strict = the same list, unordered = equal multisets, subset = every
\* expected name among the actual ones, superset = every actual name among
\* the expected ones.
C24_ModeRelation ==
  ToolSequenceReturned =>
    (direct.result.pass <=> ModeRelation(direct.mode, ActualNames, direct.tools))

ToolArgsReturned == direct.call = "toolArgsMatch"

\* deep structural equality of JSON values: the same kind, and equal
\* primitives, arrays equal index by index, objects with the same key set
\* equal key by key
RECURSIVE StructurallyEqual(_, _)
StructurallyEqual(a, b) ==
  /\ a.kind = b.kind
  /\ CASE a.kind = "prim" -> a = b
       [] a.kind = "array" ->
            /\ Len(a.items) = Len(b.items)
            /\ \A i \in 1..Len(a.items) : StructurallyEqual(a.items[i], b.items[i])
       [] a.kind = "object" ->
            /\ DOMAIN a.members = DOMAIN b.members
            /\ \A k \in DOMAIN a.members : StructurallyEqual(a.members[k], b.members[k])

\* C25: toolArgsMatch(name, expected, 'exact') looks at the first tool call
\* named name, fails when there is none, and passes exactly when that call's
\* args (absent args counting as {}) and expected are deeply structurally
\* equal JSON values: the same key set at every level and values of the same
\* kind that are themselves equal.
C25_ExactDeepEqual ==
  (ToolArgsReturned /\ direct.mode = "exact") =>
    LET list == direct.toolCalls.list
        named == {i \in 1..Len(list) : list[i].name = direct.toolName}
        first == list[SetMin(named)]
        args == IF first.args.present THEN first.args.value ELSE EmptyObject
    IN direct.result.pass <=> (named # {} /\ StructurallyEqual(args, direct.expected))

ConfigHashReturned == direct.call = "computeConfigHash"

IdsOf(s) == [i \in 1..Len(s.cases) |-> s.cases[i].id]

\* the gates as a mapping from keys to values
GateMapping(s) ==
  [present |-> s.gates.present, passRate |-> s.gates.passRate,
   maxCost |-> s.gates.maxCost, p95LatencyMs |-> s.gates.p95LatencyMs]

AgreeOnStructure(a, b) ==
  /\ a.name = b.name
  /\ IdsOf(a) = IdsOf(b)
  /\ Len(a.cases) = Len(b.cases)
  /\ GateMapping(a) = GateMapping(b)

\* C26: configHash is determined by the suite name, the case ids in order,
\* the case count and the gates alone: two suites that agree on these four
\* get the same configHash, whatever their target, default graders and case
\* inputs, expected values and categories; so does the same suite twice.
C26_HashDeterminedByStructure ==
  ConfigHashReturned =>
    (AgreeOnStructure(direct.a, direct.b) => direct.hashA = direct.hashB)

\* C26, amended: two suites that agree on the name, the case ids in order,
\* the case count and the gates, the gates holding their keys in the same
\* order, get the same configHash, whatever their target, default graders
\* and case inputs, expected values and categories; so does the same suite
\* twice.
C26_HashDeterminedBySerialization ==
  ConfigHashReturned =>
    ((AgreeOnStructure(direct.a, direct.b) /\ direct.a.gates.keys = direct.b.gates.keys)
       => direct.hashA = direct.hashB)

\* two suites with the same two case ids that differ in the categories of
\* their cases
C26_Witness ==
  /\ ConfigHashReturned
  /\ direct.aspect = "category"
  /\ Len(direct.a.cases) = 2
  /\ direct.a.gates.present
  /\ direct.a.cases # direct.b.cases
  /\ AgreeOnStructure(direct.a, direct.b)
  /\ direct.hashA = direct.hashB

\* C27: every execution of runSuite over a finite case list with a finite
\* timeoutMs eventually returns a Run, also when the target never settles
\* for some or all cases, provided every grader invocation resolves.
C27_EventuallyReturns == <>(pc = "done")

\* a Run returned over two cases while both target invocations are still
\* pending
C27_Witness ==
  /\ pc = "done"
  /\ Len(suite.cases) = 2
  /\ Len(run.trials) = 2
  /\ \A i \in 1..2 : target[i] = "running" /\ timer[i] = "fired"

\* C28: what runJudgeOnly returns holds exactly one trial per stored trial,
\* in the stored order and with the stored caseId, and every status in it is
\* pass or fail, never error, also for a stored trial whose status was error,
\* which is re-graded on its stored output like any other.
C28_OneRegradedTrialPerStored ==
  pc = "joDone" =>
    /\ Len(regraded) = Len(previousRun.trials)
    /\ \A i \in 1..Len(regraded) :
         /\ regraded[i].caseId = previousRun.trials[i].caseId
         /\ regraded[i].status \in {"pass", "fail"}
         /\ regraded[i].output = previousRun.trials[i].output

\* runJudgeOnly has returned over a stored error trial followed by a stored
\* pass trial, the error trial re-graded by a grader
C28_Witness ==
  /\ pc = "joDone"
  /\ Len(previousRun.trials) = 2
  /\ previousRun.trials[1].status = "error"
  /\ previousRun.trials[2].status = "pass"
  /\ Len(regraded) = 2
  /\ Len(regraded[1].grades) > 0
  /\ regraded[1].status = "pass"
  /\ regraded[2].status = "fail"

\* ---- the file watcher's log
WatcherLog == watcher.log

FlushAt(k) == WatcherLog[k].kind = "flush"

\* the flush before entry k (0: none)
PrevFlush(k) ==
  LET before == {j \in 1..(k - 1) : FlushAt(j)}
  IN IF before = {} THEN 0 ELSE CHOOSE j \in before : \A i \in before : i <= j

\* entry j is a change event on a non-ignored path
NonIgnoredChange(j) ==
  /\ WatcherLog[j].kind = "change"
  /\ WatcherLog[j].path # <<>>
  /\ ~shouldIgnore(WatcherLog[j].path, watcher.ignorePatterns)

\* entry j is a change event on a path, ignored or not
ChangeOnPath(j) ==
  /\ WatcherLog[j].kind = "change"
  /\ WatcherLog[j].path # <<>>

\* the batch flushed at k holds exactly the non-ignored paths changed since
\* the flush before, each once, and there is at least one
BatchIsFresh(k) ==
  LET files == WatcherLog[k].files
  IN /\ Range(files) =
          {WatcherLog[j].path : j \in {j \in (PrevFlush(k) + 1)..(k - 1) : NonIgnoredChange(j)}}
     /\ Len(files) > 0
     /\ \A a, b \in 1..Len(files) : files[a] = files[b] => a = b

\* the batch flushed at k is handed once to each listener registered then
BatchIsDelivered(k) ==
  \A i \in 1..WatcherLog[k].listener :
     \E j \in (k + 1)..Len(WatcherLog) :
        /\ WatcherLog[j].kind = "deliver"
        /\ WatcherLog[j].listener = i
        /\ PrevFlush(j) = k
        /\ WatcherLog[j].files = WatcherLog[k].files
        /\ \A j2 \in (k + 1)..Len(WatcherLog) :
              (WatcherLog[j2].kind = "deliver" /\ WatcherLog[j2].listener = i
                 /\ PrevFlush(j2) = k) => j2 = j

C30_NoListenerAfterClose ==
  /\ \A j, k \in 1..Len(WatcherLog) :
        (j < k /\ WatcherLog[j].kind = "close") => WatcherLog[k].kind # "deliver"
  /\ watcher.state = "closed" => watcher.debounceTimer.handle # "armed"

====
